---- MODULE Spec2Model ----
(***************************************************************************)
(* Model of SearchService (src/services/search_service.rs): the settings   *)
(* and history stores behind tokio RwLocks, the search orchestrator with   *)
(* its suspension points, and the result merger.                           *)
(*                                                                         *)
(* Numbers: f32 scores are fixed-point integers.  A backend score (rank,   *)
(* relevance) and a weight are in tenths (8 is 0.8, 6 is 0.6); a combined  *)
(* score and min_score are in hundredths (48 is 0.48, 30 is 0.30), so the  *)
(* product of a score and a weight needs no rescaling.                     *)
(***************************************************************************)
EXTENDS Integers, Sequences, FiniteSets, TLC

\* SearchService and its callers
VARIABLES settings, ai_service, recent_queries, settings_lock, history_lock, pc, loc

\* UndoService, the clock, the action its caller holds and the last call's return
VARIABLES undo_stack, redo_stack, undo_window, enabled, now, held, undo_ret

\* TextBuffer and the last process_key result
VARIABLES buffer, key_result

\* MessageList: its threads (by identity), selection and focus, and the last call
VARIABLES threads, selected_thread_id, focused_index, list_ret

search_vars == <<settings, ai_service, recent_queries, settings_lock, history_lock, pc, loc>>

undo_vars == <<undo_stack, redo_stack, undo_window, enabled, now, held, undo_ret>>

buffer_vars == <<buffer, key_result>>

list_vars == <<threads, selected_thread_id, focused_index, list_ret>>

vars == <<search_vars, undo_vars, buffer_vars, list_vars>>

\* what an operation of one component leaves alone
outside_search == <<undo_vars, buffer_vars, list_vars>>

outside_undo == <<search_vars, buffer_vars, list_vars>>

outside_buffer == <<search_vars, undo_vars, list_vars>>

outside_list == <<search_vars, undo_vars, buffer_vars>>

(***************************************************************************)
(* Bounds and data of the checked instances                                *)
(***************************************************************************)
\* longest hit list a backend returns in the sequential instance
MaxHits == 2

\* recent.truncate(100)
HistoryCap == 100

\* SearchSettings::default().default_limit, SearchQuery::new limit
DefaultLimit == 50

\* MAX_HISTORY_SIZE
MaxHistorySize == 100

\* DEFAULT_UNDO_WINDOW, in seconds
DefaultUndoWindow == 30

\* deepest undo stack the undo instance builds
MaxUndo == 2

\* the clock of the undo instance stops here (seconds)
MaxClock == 30

\* longest text, in characters, the buffer instance types
MaxText == 3

\* most threads a message list is given
MaxThreads == 3

None == "None"

\* callers that run search, and callers that read and replace the settings
Searchers == {"s1", "s2"}

Clients == {"u1"}

Procs == Searchers \cup Clients

EmailIds == {"E1", "E2"}

Whitespace == {" "}

\* query texts are sequences of characters
Texts == {<<"a">>, <<>>}

Modes == {"FullText", "Semantic", "Hybrid"}

\* SearchSettings::default()
DefaultSettings ==
    [semantic_enabled |-> TRUE, fts_weight |-> 6, semantic_weight |-> 4,
     min_score |-> 30, default_limit |-> DefaultLimit]

\* the values update_settings is called with
SettingsValues ==
    { DefaultSettings,
      [DefaultSettings EXCEPT !.semantic_enabled = FALSE],
      [DefaultSettings EXCEPT !.fts_weight = 10, !.semantic_weight = 10, !.min_score = 0],
      [DefaultSettings EXCEPT !.fts_weight = 3, !.semantic_weight = 7, !.min_score = 35] }

\* the two values the concurrent instance switches between
ToggleSettings == {DefaultSettings, [DefaultSettings EXCEPT !.semantic_enabled = FALSE]}

FtsHit(e, r) == [email_id |-> e, rank |-> r, snippet |-> <<"fts", e, r>>]

SemanticHit(e, r) == [email_id |-> e, relevance |-> r, highlights |-> <<"hl", e, r>>]

\* EmailMetadata: exactly one record per identity
Metadata(e) ==
    [email_id |-> e, thread_id |-> <<"thread", e>>, subject |-> <<"subject", e>>,
     snippet |-> <<"meta", e>>, from |-> <<"from", e>>, date |-> <<"date", e>>,
     is_read |-> (e = "E1")]

\* all sequences over S of length at most n
SeqsUpTo(S, n) == UNION {[1..k -> S] : k \in 0..n}

Ok(v) == [ok |-> TRUE, value |-> v]

Err(e) == [ok |-> FALSE, error |-> e]

\* what a backend may answer: an error or a list of hits
Responses(hits, n, e) == {Err(e)} \cup {Ok(l) : l \in SeqsUpTo(hits, n)}

\* sequential instance: ranks 0.8 and 0.9, relevance 0.5
SeqFtsResponses == Responses({FtsHit(e, r) : e \in EmailIds, r \in {8, 9}}, MaxHits, "fts_error")

SeqSemResponses == Responses({SemanticHit(e, r) : e \in EmailIds, r \in {5}}, MaxHits, "semantic_error")

\* concurrent instance: one hit at most
ConcFtsResponses == Responses({FtsHit("E1", 8)}, 1, "fts_error")

ConcSemResponses == Responses({SemanticHit("E1", 5)}, 1, "semantic_error")

\* zero-score instance: a lexical rank may be 0 or negative (backend-defined
\* scale), a relevance may be 0; min_score may be 0 or negative
ZeroFtsResponses ==
    Responses({FtsHit(e, r) : e \in EmailIds, r \in {-5, 0, 8}}, 2, "fts_error")

ZeroSemResponses == Responses({SemanticHit("E1", r) : r \in {0, 5}}, 1, "semantic_error")

ZeroSettings ==
    { DefaultSettings,
      [DefaultSettings EXCEPT !.fts_weight = 10, !.semantic_weight = 10, !.min_score = 0],
      [DefaultSettings EXCEPT !.min_score = -10] }

ZeroQueries == [text : {<<"a">>}, mode : Modes, limit : {DefaultLimit}, offset : {0}]

\* paging instance: lexical hits of equal rank, pages of one hit
PageFtsResponses == Responses({FtsHit(e, 8) : e \in EmailIds}, 2, "fts_error")

PageQueries == [text : {<<"a">>}, mode : {"FullText"}, limit : {1}, offset : {0, 1}]

\* history instance: blank, plain and untrimmed texts, a lexical search with
\* one hit at most, history reads of one or two entries
HistTexts == {<<>>, <<" ">>, <<"a">>, <<"b">>, <<" ", "a">>}

HistFtsResponses == Responses({FtsHit("E1", 8)}, 1, "fts_error")

HistQueries == [text : HistTexts, mode : {"FullText"}, limit : {DefaultLimit}, offset : {0}]

HistLimits == {1, 2}

\* cap instance: the texts "1", "2", ... written as their decimal digits
Digits == <<"0", "1", "2", "3", "4", "5", "6", "7", "8", "9">>

RECURSIVE NumText(_)
NumText(n) ==
    IF n < 10 THEN <<Digits[n + 1]>> ELSE NumText(n \div 10) \o <<Digits[(n % 10) + 1]>>

\* the caller submits "1", "2", ... in turn until the history is full, then
\* the two oldest texts or two texts not submitted before
CapTexts(recent) ==
    IF Len(recent) < HistoryCap
    THEN {NumText(Len(recent) + 1)}
    ELSE {NumText(1), NumText(2), NumText(HistoryCap + 1), NumText(HistoryCap + 2)}

CapQueries(recent) ==
    [text : CapTexts(recent), mode : {"FullText"}, limit : {DefaultLimit}, offset : {0}]

\* suggest instance: texts and prefixes in mixed case
SuggestQueries ==
    [text : {<<"a">>, <<"A", "b">>, <<"b">>}, mode : {"FullText"},
     limit : {DefaultLimit}, offset : {0}]

SuggestPrefixes == {<<>>, <<"A">>, <<"a", "B">>}

SuggestLimits == {0, 1, 2}

\* SearchQuery::new(text).with_mode(mode), or with_limit(1).with_offset(1)
SeqQueries ==
    {[text |-> t, mode |-> m, limit |-> pg[1], offset |-> pg[2]] :
        t \in {<<"a">>}, m \in Modes, pg \in {<<DefaultLimit, 0>>, <<1, 1>>}}

ConcQueries ==
    [text : {<<"a">>}, mode : Modes, limit : {DefaultLimit}, offset : {0}]

(***************************************************************************)
(* tokio::sync::RwLock: fair, write-preferring, FIFO queue of waiters       *)
(***************************************************************************)
FreeLock == [readers |-> {}, writer |-> None, queue |-> <<>>]

CanRead(l) == l.writer = None /\ l.queue = <<>>

\* mutant: a writer does not wait for the readers
CanWriteIgnoreReaders(l) == l.writer = None /\ l.queue = <<>>

CanWrite(l) == l.writer = None /\ l.readers = {} /\ l.queue = <<>>

\* lock.read().await: taken at once, or queued behind every earlier waiter
RequestRead(l, p) ==
    IF CanRead(l)
    THEN [l EXCEPT !.readers = @ \cup {p}]
    ELSE [l EXCEPT !.queue = Append(@, [proc |-> p, kind |-> "read"])]

\* lock.write().await
RequestWrite(l, p) ==
    IF CanWrite(l)
    THEN [l EXCEPT !.writer = p]
    ELSE [l EXCEPT !.queue = Append(@, [proc |-> p, kind |-> "write"])]

\* mutant: a dropped guard wakes no waiter
GrantNone(l) == l

\* hand the lock to the waiters at the head of the queue, in order
RECURSIVE Grant(_)
Grant(l) ==
    IF l.queue = <<>> \/ l.writer # None THEN l
    ELSE LET h == Head(l.queue) IN
         IF h.kind = "read"
         THEN Grant([l EXCEPT !.readers = @ \cup {h.proc}, !.queue = Tail(@)])
         ELSE IF l.readers = {}
              THEN [l EXCEPT !.writer = h.proc, !.queue = Tail(@)]
              ELSE l

\* a read guard is dropped
ReleaseRead(l, p) == Grant([l EXCEPT !.readers = @ \ {p}])

\* a write guard is dropped
ReleaseWrite(l, p) == Grant([l EXCEPT !.writer = None])

HoldsRead(l, p) == p \in l.readers

HoldsWrite(l, p) == l.writer = p

Queued(l, p) == \E i \in DOMAIN l.queue : l.queue[i].proc = p

(***************************************************************************)
(* Pure helpers of the merger                                              *)
(***************************************************************************)
Max(S) == CHOOSE x \in S : \A y \in S : y <= x

Min(S) == CHOOSE x \in S : \A y \in S : x <= y

Range(s) == {s[i] : i \in DOMAIN s}

\* all orders in which a hash container may yield the elements of S
Orders(S) == {f \in [1..Cardinality(S) -> S] : \A i, j \in DOMAIN f : f[i] = f[j] => i = j}

\* mutant: the text is not trimmed before the test
IsEmptyNoTrim(text) == text = <<>>

\* query.trim().is_empty()
TrimIsEmpty(text) == \A i \in DOMAIN text : text[i] \in Whitespace

\* HashSet of the identities of both hit lists
EmailIdsOf(fts_hits, semantic_hits) ==
    {fts_hits[i].email_id : i \in DOMAIN fts_hits}
        \cup {semantic_hits[i].email_id : i \in DOMAIN semantic_hits}

\* fts_map.get(id).unwrap_or(0.0): a later hit overwrites an earlier one
FtsScore(fts_hits, id) ==
    LET idx == {i \in DOMAIN fts_hits : fts_hits[i].email_id = id}
    IN IF idx = {} THEN 0 ELSE fts_hits[Max(idx)].rank

\* semantic_map.get(id).unwrap_or(0.0)
SemanticScore(semantic_hits, id) ==
    LET idx == {i \in DOMAIN semantic_hits : semantic_hits[i].email_id = id}
    IN IF idx = {} THEN 0 ELSE semantic_hits[Max(idx)].relevance

\* mutant: the single-backend tags exchanged
SourceOfExchanged(fts_score, semantic_score) ==
    IF fts_score > 0 /\ semantic_score > 0 THEN "Both"
    ELSE IF fts_score > 0 THEN "Semantic"
    ELSE IF semantic_score > 0 THEN "FullText"
    ELSE "Skip"

\* match (fts_score > 0.0, semantic_score > 0.0)
SourceOf(fts_score, semantic_score) ==
    IF fts_score > 0 /\ semantic_score > 0 THEN "Both"
    ELSE IF fts_score > 0 THEN "FullText"
    ELSE IF semantic_score > 0 THEN "Semantic"
    ELSE "Skip"

\* mutant: the weights applied to the wrong scores
CombinedScoreSwapped(fts_score, semantic_score, s) ==
    (fts_score * s.semantic_weight) + (semantic_score * s.fts_weight)

\* (fts_score * settings.fts_weight) + (semantic_score * settings.semantic_weight)
CombinedScore(fts_score, semantic_score, s) ==
    (fts_score * s.fts_weight) + (semantic_score * s.semantic_weight)

\* mutant: the snippet always taken from the metadata
SnippetFromMetadata(fts_hits, id) == Metadata(id).snippet

\* fts_hits.iter().find(..).map(snippet).unwrap_or(meta.snippet)
SnippetOf(fts_hits, id) ==
    LET idx == {i \in DOMAIN fts_hits : fts_hits[i].email_id = id}
    IN IF idx = {} THEN Metadata(id).snippet ELSE fts_hits[Min(idx)].snippet

\* semantic_hits.iter().find(..).map(highlights).unwrap_or_default()
HighlightsOf(semantic_hits, id) ==
    LET idx == {i \in DOMAIN semantic_hits : semantic_hits[i].email_id = id}
    IN IF idx = {} THEN <<>> ELSE semantic_hits[Min(idx)].highlights

\* the SearchHit pushed for one identity of the metadata map
HitFor(fts_hits, semantic_hits, id, s) ==
    LET f == FtsScore(fts_hits, id)
        m == SemanticScore(semantic_hits, id)
    IN [email_id |-> id,
        thread_id |-> Metadata(id).thread_id,
        subject |-> Metadata(id).subject,
        snippet |-> SnippetOf(fts_hits, id),
        from |-> Metadata(id).from,
        date |-> Metadata(id).date,
        is_read |-> Metadata(id).is_read,
        score |-> CombinedScore(f, m, s),
        source |-> SourceOf(f, m),
        highlights |-> HighlightsOf(semantic_hits, id)]

\* mutant: a score equal to min_score is dropped too
BelowThresholdInclusive(score, s) == score <= s.min_score

\* combined_score < settings.min_score
BelowThreshold(score, s) == score < s.min_score

\* the loop over metadata_map: skip "neither", skip below min_score, push
RECURSIVE ScoredResults(_, _, _, _)
ScoredResults(fts_hits, semantic_hits, order, s) ==
    IF order = <<>> THEN <<>>
    ELSE LET h == HitFor(fts_hits, semantic_hits, Head(order), s)
             rest == ScoredResults(fts_hits, semantic_hits, Tail(order), s)
         IN IF h.source = "Skip" \/ BelowThreshold(h.score, s) THEN rest ELSE <<h>> \o rest

\* one step of a stable sort by score, descending
RECURSIVE InsertByScore(_, _)
InsertByScore(sorted, h) ==
    IF sorted = <<>> THEN <<h>>
    ELSE IF Head(sorted).score >= h.score
         THEN <<Head(sorted)>> \o InsertByScore(Tail(sorted), h)
         ELSE <<h>> \o sorted

\* mutant: the results are returned in metadata_map order
SortSkipped(results) == results

\* results.sort_by(|a, b| b.score.partial_cmp(&a.score)): stable
RECURSIVE SortByScoreDesc(_)
SortByScoreDesc(results) ==
    IF results = <<>> THEN <<>>
    ELSE InsertByScore(SortByScoreDesc(SubSeq(results, 1, Len(results) - 1)),
                       results[Len(results)])

\* mutant: the loop runs over the requested identities, not the metadata map
MergeScoredAllIds(fts_hits, semantic_hits, order, s) ==
    SortByScoreDesc(ScoredResults(fts_hits, semantic_hits,
                                  CHOOSE o \in Orders(EmailIdsOf(fts_hits, semantic_hits)) : TRUE,
                                  s))

\* merge_results after the metadata arrived; order is the iteration order of
\* metadata_map
MergeScored(fts_hits, semantic_hits, order, s) ==
    SortByScoreDesc(ScoredResults(fts_hits, semantic_hits, order, s))

\* mutant: take(limit) before skip(offset)
PaginateTakeFirst(merged, offset, limit) ==
    SubSeq(merged, offset + 1, IF limit < Len(merged) THEN limit ELSE Len(merged))

\* merged.into_iter().skip(offset).take(limit)
Paginate(merged, offset, limit) ==
    SubSeq(merged, offset + 1, IF offset + limit < Len(merged) THEN offset + limit ELSE Len(merged))

(***************************************************************************)
(* Per-caller state of a call in progress                                  *)
(***************************************************************************)
NoQuery == [text |-> <<>>, mode |-> "Hybrid", limit |-> 0, offset |-> 0]

NoResult == Err("none")

\* a backend call: not issued, in flight, or returned with res
NotCalled == [st |-> "none", res |-> NoResult]

Pending == [st |-> "pending", res |-> NoResult]

Done(r) == [st |-> "done", res |-> r]

\* locals of search, update_settings and settings; the *_calls fields count the
\* collaborator calls the current search has issued, seen is the settings
\* value the dispatch read through its guard
IdleLoc ==
    [op |-> "none", query |-> NoQuery, arg |-> DefaultSettings,
     branch |-> "none", fts |-> NotCalled, sem |-> NotCalled,
     fts_hits |-> <<>>, semantic_hits |-> <<>>, used_semantic |-> FALSE,
     ids |-> <<>>, meta |-> NotCalled, merged |-> <<>>, result |-> NoResult,
     fts_calls |-> 0, sem_calls |-> 0, meta_calls |-> 0,
     seen |-> DefaultSettings, limit |-> 0, prefix |-> <<>>]

\* Option: None is the empty sequence, Some(x) the sequence of x alone
Some(x) == <<x>>

\* UndoService::new() at time 0; nothing held, nothing returned yet
UndoInit ==
    /\ undo_stack = <<>>
    /\ redo_stack = <<>>
    /\ undo_window = DefaultUndoWindow
    /\ enabled = TRUE
    /\ now = 0
    /\ held = <<>>
    /\ undo_ret = [op |-> "new", arg |-> <<>>, value |-> <<>>]

\* TextBuffer::new()
BufferInit ==
    /\ buffer = [text |-> <<>>, cursor |-> 0]
    /\ key_result = [key |-> "None", result |-> "None"]

\* MessageList::new
ListInit ==
    /\ threads = <<>>
    /\ selected_thread_id = <<>>
    /\ focused_index = 0
    /\ list_ret = [op |-> "new", panicked |-> FALSE]

\* SearchService::new, optionally followed by with_ai_service
Init ==
    /\ settings = DefaultSettings
    /\ ai_service \in BOOLEAN
    /\ recent_queries = <<>>
    /\ settings_lock = FreeLock
    /\ history_lock = FreeLock
    /\ pc = [p \in Procs |-> "idle"]
    /\ loc = [p \in Procs |-> IdleLoc]
    /\ UndoInit
    /\ BufferInit
    /\ ListInit

(***************************************************************************)
(* update_settings and settings                                            *)
(***************************************************************************)
\* update_settings: self.settings.write().await
update_settings(p, s) ==
    /\ pc[p] = "idle"
    /\ settings_lock' = RequestWrite(settings_lock, p)
    /\ pc' = [pc EXCEPT ![p] = "u_write"]
    /\ loc' = [loc EXCEPT ![p] = [IdleLoc EXCEPT !.op = "update_settings", !.arg = s]]
    /\ UNCHANGED <<settings, ai_service, recent_queries, history_lock>>
    /\ UNCHANGED outside_search

\* *current = settings; the guard is dropped on return
UpdateSettingsWrite(p) ==
    /\ pc[p] = "u_write"
    /\ HoldsWrite(settings_lock, p)
    /\ settings' = loc[p].arg
    /\ settings_lock' = ReleaseWrite(settings_lock, p)
    /\ pc' = [pc EXCEPT ![p] = "idle"]
    /\ loc' = [loc EXCEPT ![p] = IdleLoc]
    /\ UNCHANGED <<ai_service, recent_queries, history_lock>>
    /\ UNCHANGED outside_search

\* settings(): self.settings.read().await
settings_call(p) ==
    /\ pc[p] = "idle"
    /\ settings_lock' = RequestRead(settings_lock, p)
    /\ pc' = [pc EXCEPT ![p] = "g_read"]
    /\ loc' = [loc EXCEPT ![p] = [IdleLoc EXCEPT !.op = "settings"]]
    /\ UNCHANGED <<settings, ai_service, recent_queries, history_lock>>
    /\ UNCHANGED outside_search

\* .clone(); the temporary guard is dropped
SettingsClone(p) ==
    /\ pc[p] = "g_read"
    /\ HoldsRead(settings_lock, p)
    /\ settings_lock' = ReleaseRead(settings_lock, p)
    /\ pc' = [pc EXCEPT ![p] = "done"]
    /\ loc' = [loc EXCEPT ![p].result = Ok(settings)]
    /\ UNCHANGED <<settings, ai_service, recent_queries, history_lock>>
    /\ UNCHANGED outside_search

(***************************************************************************)
(* recent_queries                                                          *)
(***************************************************************************)
\* recent_queries entry: self.recent_queries.read().await
recent_queries_call(p, limit) ==
    /\ pc[p] = "idle"
    /\ history_lock' = RequestRead(history_lock, p)
    /\ pc' = [pc EXCEPT ![p] = "h_read"]
    /\ loc' = [loc EXCEPT ![p] = [IdleLoc EXCEPT !.op = "recent_queries", !.limit = limit]]
    /\ UNCHANGED <<settings, ai_service, recent_queries, settings_lock>>
    /\ UNCHANGED outside_search

\* recent.iter().take(limit).cloned().collect()
Take(recent, limit) == SubSeq(recent, 1, Min({limit, Len(recent)}))

\* the first limit entries are cloned; the guard is dropped on return
RecentQueriesTake(p) ==
    /\ pc[p] = "h_read"
    /\ HoldsRead(history_lock, p)
    /\ history_lock' = ReleaseRead(history_lock, p)
    /\ pc' = [pc EXCEPT ![p] = "done"]
    /\ loc' = [loc EXCEPT ![p].result = Ok(Take(recent_queries, loc[p].limit))]
    /\ UNCHANGED <<settings, ai_service, recent_queries, settings_lock>>
    /\ UNCHANGED outside_search

(***************************************************************************)
(* suggest                                                                 *)
(***************************************************************************)
\* char::to_lowercase on the letters of the instance
LowerChar(c) == CASE c = "A" -> "a" [] c = "B" -> "b" [] OTHER -> c

\* mutant: the case is kept
SameCase(text) == text

\* str::to_lowercase
ToLowercase(text) == [i \in DOMAIN text |-> LowerChar(text[i])]

\* str::starts_with
StartsWith(text, prefix) ==
    Len(prefix) <= Len(text) /\ SubSeq(text, 1, Len(prefix)) = prefix

\* suggest entry: prefix.to_lowercase(), then self.recent_queries.read().await
suggest_call(p, prefix, limit) ==
    /\ pc[p] = "idle"
    /\ history_lock' = RequestRead(history_lock, p)
    /\ pc' = [pc EXCEPT ![p] = "h_suggest"]
    /\ loc' = [loc EXCEPT ![p] = [IdleLoc EXCEPT !.op = "suggest", !.limit = limit,
                                                 !.prefix = ToLowercase(prefix)]]
    /\ UNCHANGED <<settings, ai_service, recent_queries, settings_lock>>
    /\ UNCHANGED outside_search

\* .filter(|q| q.to_lowercase().starts_with(&prefix_lower))
Suggestions(recent, prefix_lower) ==
    SelectSeq(recent, LAMBDA q : StartsWith(ToLowercase(q), prefix_lower))

\* filter, take(limit), cloned, collect; the guard is dropped on return
SuggestFilter(p) ==
    /\ pc[p] = "h_suggest"
    /\ HoldsRead(history_lock, p)
    /\ history_lock' = ReleaseRead(history_lock, p)
    /\ pc' = [pc EXCEPT ![p] = "done"]
    /\ loc' = [loc EXCEPT ![p].result =
                   Ok(Take(Suggestions(recent_queries, loc[p].prefix), loc[p].limit))]
    /\ UNCHANGED <<settings, ai_service, recent_queries, settings_lock>>
    /\ UNCHANGED outside_search

(***************************************************************************)
(* search                                                                  *)
(***************************************************************************)
\* search entry: let settings = self.settings.read().await
search(p, q) ==
    /\ pc[p] = "idle"
    /\ settings_lock' = RequestRead(settings_lock, p)
    /\ pc' = [pc EXCEPT ![p] = "s_settings"]
    /\ loc' = [loc EXCEPT ![p] = [IdleLoc EXCEPT !.op = "search", !.query = q]]
    /\ UNCHANGED <<settings, ai_service, recent_queries, history_lock>>
    /\ UNCHANGED outside_search

\* track_query up to self.recent_queries.write().await; blank text returns
track_query(p) ==
    /\ pc[p] = "s_settings"
    /\ HoldsRead(settings_lock, p)
    /\ IF TrimIsEmpty(loc[p].query.text)
       THEN /\ pc' = [pc EXCEPT ![p] = "s_dispatch"]
            /\ UNCHANGED history_lock
       ELSE /\ pc' = [pc EXCEPT ![p] = "s_history"]
            /\ history_lock' = RequestWrite(history_lock, p)
    /\ UNCHANGED <<settings, ai_service, recent_queries, settings_lock, loc>>
    /\ UNCHANGED outside_search

\* mutant: the earlier entry is kept
RetainAll(recent, query) == recent

\* recent.retain(|q| q != query)
Retain(recent, query) == SelectSeq(recent, LAMBDA q : q # query)

\* mutant: the list is not shortened
NoTruncate(recent, n) == recent

\* recent.truncate(n)
Truncate(recent, n) == IF Len(recent) > n THEN SubSeq(recent, 1, n) ELSE recent

\* mutant: the query is pushed at the back
TrackedAtBack(recent, query) == Truncate(Retain(recent, query) \o <<query>>, HistoryCap)

\* retain, insert(0, query), truncate(100)
Tracked(recent, query) == Truncate(<<query>> \o Retain(recent, query), HistoryCap)

\* track_query with the history write guard held; the guard is dropped
TrackQueryWrite(p) ==
    /\ pc[p] = "s_history"
    /\ HoldsWrite(history_lock, p)
    /\ recent_queries' = Tracked(recent_queries, loc[p].query.text)
    /\ history_lock' = ReleaseWrite(history_lock, p)
    /\ pc' = [pc EXCEPT ![p] = "s_dispatch"]
    /\ UNCHANGED <<settings, ai_service, settings_lock, loc>>
    /\ UNCHANGED outside_search

\* settings.semantic_enabled && self.ai_service.is_some()
SemanticAvailable(s, ai) == s.semantic_enabled /\ ai

\* mutant: Hybrid mode ignores settings.semantic_enabled
DispatchBranchIgnoreEnabled(mode, s, ai) ==
    CASE mode = "FullText" -> "fts"
      [] mode = "Semantic" -> IF SemanticAvailable(s, ai) THEN "semantic" ELSE "fts"
      [] mode = "Hybrid" -> IF ai THEN "join" ELSE "fts"

\* mutant: Semantic mode without the lexical fallback
DispatchBranchNoFallback(mode, s, ai) ==
    CASE mode = "FullText" -> "fts"
      [] mode = "Semantic" -> "semantic"
      [] mode = "Hybrid" -> IF SemanticAvailable(s, ai) THEN "join" ELSE "fts"

\* match query.mode: which backend futures the search awaits
DispatchBranch(mode, s, ai) ==
    CASE mode = "FullText" -> "fts"
      [] mode = "Semantic" -> IF SemanticAvailable(s, ai) THEN "semantic" ELSE "fts"
      [] mode = "Hybrid" -> IF SemanticAvailable(s, ai) THEN "join" ELSE "fts"

\* self.semantic_search: reaches the AI service only when one is configured
SemanticCallIssued(branch, ai) == branch \in {"semantic", "join"} /\ ai

\* the first poll of the awaited future(s) issues the backend call(s)
Dispatch(p) ==
    /\ pc[p] = "s_dispatch"
    /\ LET b == DispatchBranch(loc[p].query.mode, settings, ai_service)
           f == b \in {"fts", "join"}
           m == SemanticCallIssued(b, ai_service)
       IN loc' = [loc EXCEPT ![p].branch = b,
                             ![p].seen = settings,
                             ![p].fts = IF f THEN Pending ELSE NotCalled,
                             ![p].sem = IF m THEN Pending
                                        ELSE IF b \in {"semantic", "join"} THEN Done(Ok(<<>>))
                                        ELSE NotCalled,
                             ![p].fts_calls = @ + (IF f THEN 1 ELSE 0),
                             ![p].sem_calls = @ + (IF m THEN 1 ELSE 0)]
    /\ pc' = [pc EXCEPT ![p] = "s_backends"]
    /\ UNCHANGED <<settings, ai_service, recent_queries, settings_lock, history_lock>>
    /\ UNCHANGED outside_search

\* storage.fts_search returns
FtsReturn(p, r) ==
    /\ pc[p] = "s_backends"
    /\ loc[p].fts.st = "pending"
    /\ loc' = [loc EXCEPT ![p].fts = Done(r)]
    /\ UNCHANGED <<settings, ai_service, recent_queries, settings_lock, history_lock, pc>>
    /\ UNCHANGED outside_search

\* ai_service.semantic_search returns
SemReturn(p, r) ==
    /\ pc[p] = "s_backends"
    /\ loc[p].sem.st = "pending"
    /\ loc' = [loc EXCEPT ![p].sem = Done(r)]
    /\ UNCHANGED <<settings, ai_service, recent_queries, settings_lock, history_lock, pc>>
    /\ UNCHANGED outside_search

\* mutant: try_join!, ready as soon as the lexical call has failed
BackendsReadyTryJoin(branch, fts, sem) ==
    CASE branch = "fts" -> fts.st = "done"
      [] branch = "semantic" -> sem.st = "done"
      [] branch = "join" -> \/ fts.st = "done" /\ sem.st = "done"
                            \/ fts.st = "done" /\ ~fts.res.ok
      [] OTHER -> FALSE

\* the awaited future is ready: a single call has returned, or tokio::join!
\* has both results
BackendsReady(branch, fts, sem) ==
    CASE branch = "fts" -> fts.st = "done"
      [] branch = "semantic" -> sem.st = "done"
      [] branch = "join" -> fts.st = "done" /\ sem.st = "done"
      [] OTHER -> FALSE

\* semantic.unwrap_or_default()
UnwrapOrDefault(r) == IF r.ok THEN r.value ELSE <<>>

\* mutant: semantic? in the Hybrid branch
BackendOutcomePropagate(branch, fts, sem) ==
    CASE branch = "fts" ->
           IF fts.ok THEN Ok([fts_hits |-> fts.value, semantic_hits |-> <<>>]) ELSE fts
      [] branch = "semantic" ->
           IF sem.ok THEN Ok([fts_hits |-> <<>>, semantic_hits |-> sem.value]) ELSE sem
      [] branch = "join" ->
           IF ~fts.ok THEN fts
           ELSE IF ~sem.ok THEN sem
           ELSE Ok([fts_hits |-> fts.value, semantic_hits |-> sem.value])

\* mutant: fts.unwrap_or_default() in the Hybrid branch
BackendOutcomeLenient(branch, fts, sem) ==
    CASE branch = "fts" ->
           IF fts.ok THEN Ok([fts_hits |-> fts.value, semantic_hits |-> <<>>]) ELSE fts
      [] branch = "semantic" ->
           IF sem.ok THEN Ok([fts_hits |-> <<>>, semantic_hits |-> sem.value]) ELSE sem
      [] branch = "join" ->
           Ok([fts_hits |-> IF fts.ok THEN fts.value ELSE <<>>,
               semantic_hits |-> IF sem.ok THEN sem.value ELSE <<>>])

\* the value of the match: (fts_hits, semantic_hits), or the error a `?`
\* returns
BackendOutcome(branch, fts, sem) ==
    CASE branch = "fts" ->
           IF fts.ok THEN Ok([fts_hits |-> fts.value, semantic_hits |-> <<>>]) ELSE fts
      [] branch = "semantic" ->
           IF sem.ok THEN Ok([fts_hits |-> <<>>, semantic_hits |-> sem.value]) ELSE sem
      [] branch = "join" ->
           IF fts.ok
           THEN Ok([fts_hits |-> fts.value, semantic_hits |-> UnwrapOrDefault(sem)])
           ELSE fts

\* the SearchResults of a merged list
ResultPage(merged, q, used) ==
    Ok([hits |-> Paginate(merged, q.offset, q.limit), total |-> Len(merged),
        query |-> q.text, used_semantic |-> used])

\* search resumes with the backend results; an error returns and drops the
\* settings guard
SearchResume(p) ==
    /\ pc[p] = "s_backends"
    /\ BackendsReady(loc[p].branch, loc[p].fts, loc[p].sem)
    /\ LET o == BackendOutcome(loc[p].branch, loc[p].fts.res, loc[p].sem.res)
       IN IF o.ok
          THEN /\ loc' = [loc EXCEPT ![p].fts_hits = o.value.fts_hits,
                                     ![p].semantic_hits = o.value.semantic_hits]
               /\ pc' = [pc EXCEPT ![p] = "s_merge"]
               /\ UNCHANGED settings_lock
          ELSE /\ loc' = [loc EXCEPT ![p].result = o]
               /\ pc' = [pc EXCEPT ![p] = "done"]
               /\ settings_lock' = ReleaseRead(settings_lock, p)
    /\ UNCHANGED <<settings, ai_service, recent_queries, history_lock>>
    /\ UNCHANGED outside_search

\* mutant: one requested identity per hit, without the HashSet
MetadataRequestsPerHit(fts_hits, semantic_hits) ==
    {[i \in 1..(Len(fts_hits) + Len(semantic_hits)) |->
        IF i <= Len(fts_hits) THEN fts_hits[i].email_id
        ELSE semantic_hits[i - Len(fts_hits)].email_id]}

\* let ids: Vec<EmailId> = email_ids.into_iter().collect(): the union in some
\* order
MetadataRequests(fts_hits, semantic_hits) == Orders(EmailIdsOf(fts_hits, semantic_hits))

\* mutant: the negation is missing
UsedSemanticInverted(semantic_hits) == semantic_hits = <<>>

\* let used_semantic = !semantic_hits.is_empty()
UsedSemantic(semantic_hits) == semantic_hits # <<>>

\* used_semantic, then merge_results up to the metadata fetch: an empty union
\* returns Ok(vec![]) without a fetch and search returns its page
MergeBegin(p, request) ==
    /\ pc[p] = "s_merge"
    /\ request \in MetadataRequests(loc[p].fts_hits, loc[p].semantic_hits)
    /\ LET used == UsedSemantic(loc[p].semantic_hits)
       IN IF request = <<>>
          THEN /\ loc' = [loc EXCEPT ![p].used_semantic = used,
                                     ![p].result = ResultPage(<<>>, loc[p].query, used)]
               /\ pc' = [pc EXCEPT ![p] = "done"]
               /\ settings_lock' = ReleaseRead(settings_lock, p)
          ELSE /\ loc' = [loc EXCEPT ![p].used_semantic = used,
                                     ![p].ids = request,
                                     ![p].meta = Pending,
                                     ![p].meta_calls = @ + 1]
               /\ pc' = [pc EXCEPT ![p] = "s_metadata"]
               /\ UNCHANGED settings_lock
    /\ UNCHANGED <<settings, ai_service, recent_queries, history_lock>>
    /\ UNCHANGED outside_search

\* what get_email_metadata may answer to a request: an error, or the records
\* of the identities it finds
MetaResponses(request) == {Err("metadata_error")} \cup {Ok(found) : found \in SUBSET Range(request)}

\* storage.get_email_metadata returns
MetaReturn(p, r) ==
    /\ pc[p] = "s_metadata"
    /\ loc[p].meta.st = "pending"
    /\ r \in MetaResponses(loc[p].ids)
    /\ loc' = [loc EXCEPT ![p].meta = Done(r)]
    /\ UNCHANGED <<settings, ai_service, recent_queries, settings_lock, history_lock, pc>>
    /\ UNCHANGED outside_search

\* mutant: a failed metadata fetch is taken as no metadata
MergeOutcomeIgnoreError(meta_res, fts_hits, semantic_hits, order, s) ==
    IF meta_res.ok THEN Ok(MergeScored(fts_hits, semantic_hits, order, s)) ELSE Ok(<<>>)

\* self.storage.get_email_metadata(&ids).await? and the rest of merge_results
MergeOutcome(meta_res, fts_hits, semantic_hits, order, s) ==
    IF meta_res.ok THEN Ok(MergeScored(fts_hits, semantic_hits, order, s)) ELSE meta_res

\* the rest of merge_results, pagination and return; order is the iteration
\* order of metadata_map; the settings guard is dropped
MergeFinish(p, order) ==
    /\ pc[p] = "s_metadata"
    /\ loc[p].meta.st = "done"
    /\ order \in (IF loc[p].meta.res.ok THEN Orders(loc[p].meta.res.value) ELSE {<<>>})
    /\ LET o == MergeOutcome(loc[p].meta.res, loc[p].fts_hits, loc[p].semantic_hits,
                             order, settings)
       IN IF o.ok
          THEN loc' = [loc EXCEPT ![p].merged = o.value,
                                  ![p].result = ResultPage(o.value, loc[p].query,
                                                           loc[p].used_semantic)]
          ELSE loc' = [loc EXCEPT ![p].result = o]
    /\ pc' = [pc EXCEPT ![p] = "done"]
    /\ settings_lock' = ReleaseRead(settings_lock, p)
    /\ UNCHANGED <<settings, ai_service, recent_queries, history_lock>>
    /\ UNCHANGED outside_search

\* the caller takes the returned value
Return(p) ==
    /\ pc[p] = "done"
    /\ pc' = [pc EXCEPT ![p] = "idle"]
    /\ loc' = [loc EXCEPT ![p] = IdleLoc]
    /\ UNCHANGED <<settings, ai_service, recent_queries, settings_lock, history_lock>>
    /\ UNCHANGED outside_search

(***************************************************************************)
(* UndoService (src/services/undo_service.rs); times are in seconds        *)
(***************************************************************************)
\* the action types of the instance
UndoTypes == {"Archive", "PermanentDelete", "Send"}

\* the windows set_undo_window is called with
UndoWindows == {0, 40}

\* the redo stack of the instance holds one action at most
MaxRedo == 1

\* the time that passes between two calls
TickSeconds == 15

\* mutant: every action type can be undone
AlwaysUndoable(action_type) == TRUE

\* ActionType::is_undoable
is_undoable(action_type) == action_type \notin {"PermanentDelete", "Send"}

\* UndoableAction::new at time t
NewAction(action_type, t) == [action_type |-> action_type, performed_at |-> t]

\* UndoableAction::is_within_window at time t
is_within_window(action, window, t) == t - action.performed_at < window

\* UndoableAction::can_undo at time t
ActionCanUndo(action, t) ==
    is_undoable(action.action_type) /\ is_within_window(action, DefaultUndoWindow, t)

\* mutant: nothing expires
KeepAll(stack, window, t) == stack

\* UndoService::cleanup_expired at time t
cleanup_expired(stack, window, t) ==
    SelectSeq(stack, LAMBDA a : is_within_window(a, window, t))

\* while stack.len() > MAX_HISTORY_SIZE { stack.pop_front(); }
TrimFront(stack) ==
    IF Len(stack) > MaxHistorySize
    THEN SubSeq(stack, Len(stack) - MaxHistorySize + 1, Len(stack))
    ELSE stack

\* UndoService::peek_undo at time t
peek_undo(stack, window, t) ==
    IF stack # <<>> /\ is_within_window(stack[Len(stack)], window, t)
    THEN Some(stack[Len(stack)])
    ELSE <<>>

\* UndoService::can_undo
can_undo(stack, window, t) == peek_undo(stack, window, t) # <<>>

\* UndoService::undo_count (cleanup_expired_count) at time t
undo_count(stack, window, t) ==
    Len(SelectSeq(stack, LAMBDA a : is_within_window(a, window, t)))

\* mutant: the redo stack is kept
RecordKeepRedo(action) ==
    /\ IF ~enabled \/ ~is_undoable(action.action_type)
       THEN UNCHANGED <<undo_stack, redo_stack>>
       ELSE /\ redo_stack' = redo_stack
            /\ undo_stack' = cleanup_expired(TrimFront(Append(undo_stack, action)), undo_window, now)
    /\ UNCHANGED <<undo_window, enabled, now>>

\* UndoService::record
Record(action) ==
    /\ IF ~enabled \/ ~is_undoable(action.action_type)
       THEN UNCHANGED <<undo_stack, redo_stack>>
       ELSE /\ redo_stack' = <<>>
            /\ undo_stack' = cleanup_expired(TrimFront(Append(undo_stack, action)), undo_window, now)
    /\ UNCHANGED <<undo_window, enabled, now>>

\* the caller builds an action and keeps it
new_action(action_type) ==
    /\ held' = Some(NewAction(action_type, now))
    /\ undo_ret' = [op |-> "new_action", arg |-> <<>>, value |-> <<>>]
    /\ UNCHANGED <<undo_stack, redo_stack, undo_window, enabled, now>>
    /\ UNCHANGED outside_undo

\* service.record(action) with the action the caller holds
record(action) ==
    /\ held = Some(action)
    /\ Len(undo_stack) < MaxUndo
    /\ Record(action)
    /\ held' = <<>>
    /\ undo_ret' = [op |-> "record", arg |-> Some(action), value |-> <<>>]
    /\ UNCHANGED outside_undo

\* UndoService::record_action: record(UndoableAction::new(..))
record_action(action_type) ==
    /\ Len(undo_stack) < MaxUndo
    /\ Record(NewAction(action_type, now))
    /\ undo_ret' = [op |-> "record_action", arg |-> Some(NewAction(action_type, now)), value |-> <<>>]
    /\ UNCHANGED held
    /\ UNCHANGED outside_undo

\* .filter(|a| a.can_undo()) of pop_undo
PopFilter(action, window, t) == ActionCanUndo(action, t)

\* UndoService::pop_undo; the caller holds what it returns
pop_undo ==
    /\ LET kept == cleanup_expired(undo_stack, undo_window, now)
           value == IF kept # <<>> /\ PopFilter(kept[Len(kept)], undo_window, now)
                    THEN Some(kept[Len(kept)]) ELSE <<>>
       IN /\ undo_stack' = IF kept = <<>> THEN <<>> ELSE SubSeq(kept, 1, Len(kept) - 1)
          /\ held' = value
          /\ undo_ret' = [op |-> "pop_undo", arg |-> <<>>, value |-> value]
    /\ UNCHANGED <<redo_stack, undo_window, enabled, now>>
    /\ UNCHANGED outside_undo

\* UndoService::pop_redo; the caller holds what it returns
pop_redo ==
    /\ LET value == IF redo_stack = <<>> THEN <<>> ELSE Some(redo_stack[Len(redo_stack)])
       IN /\ redo_stack' = IF redo_stack = <<>> THEN <<>> ELSE SubSeq(redo_stack, 1, Len(redo_stack) - 1)
          /\ held' = value
          /\ undo_ret' = [op |-> "pop_redo", arg |-> <<>>, value |-> value]
    /\ UNCHANGED <<undo_stack, undo_window, enabled, now>>
    /\ UNCHANGED outside_undo

\* service.push_to_redo(action) with the action the caller holds
push_to_redo(action) ==
    /\ held = Some(action)
    /\ Len(redo_stack) < MaxRedo
    /\ redo_stack' = TrimFront(Append(redo_stack, action))
    /\ held' = <<>>
    /\ undo_ret' = [op |-> "push_to_redo", arg |-> Some(action), value |-> <<>>]
    /\ UNCHANGED <<undo_stack, undo_window, enabled, now>>
    /\ UNCHANGED outside_undo

\* UndoService::clear
clear ==
    /\ undo_stack' = <<>>
    /\ redo_stack' = <<>>
    /\ undo_ret' = [op |-> "clear", arg |-> <<>>, value |-> <<>>]
    /\ UNCHANGED <<undo_window, enabled, now, held>>
    /\ UNCHANGED outside_undo

\* UndoService::set_undo_window
set_undo_window(window) ==
    /\ undo_window' = window
    /\ undo_ret' = [op |-> "set_undo_window", arg |-> <<>>, value |-> <<>>]
    /\ UNCHANGED <<undo_stack, redo_stack, enabled, now, held>>
    /\ UNCHANGED outside_undo

\* UndoService::set_enabled
set_enabled(e) ==
    /\ enabled' = e
    /\ undo_ret' = [op |-> "set_enabled", arg |-> <<>>, value |-> <<>>]
    /\ UNCHANGED <<undo_stack, redo_stack, undo_window, now, held>>
    /\ UNCHANGED outside_undo

\* time passes between two calls (Instant::now advances)
Tick ==
    /\ now + TickSeconds <= MaxClock
    /\ now' = now + TickSeconds
    /\ undo_ret' = [op |-> "tick", arg |-> <<>>, value |-> <<>>]
    /\ UNCHANGED <<undo_stack, redo_stack, undo_window, enabled, held>>
    /\ UNCHANGED outside_undo

(***************************************************************************)
(* TextBuffer (src/ui/components/focusable_input.rs): the text is a         *)
(* sequence of characters, the cursor a byte offset                        *)
(***************************************************************************)
\* char::len_utf8 on the characters of the instance; "U+00E9" is one
\* character of two bytes
Utf8Len(c) == IF c = "U+00E9" THEN 2 ELSE 1

\* str::len, in bytes
RECURSIVE ByteLen(_)
ByteLen(s) == IF s = <<>> THEN 0 ELSE Utf8Len(Head(s)) + ByteLen(Tail(s))

\* the number of characters of text[..cursor]
CharsBefore(b) == CHOOSE k \in 0..Len(b.text) : ByteLen(SubSeq(b.text, 1, k)) = b.cursor

\* char::is_whitespace
IsWhitespace(c) == c = " "

\* the text without its k-th character
RemoveChar(s, k) == SubSeq(s, 1, k - 1) \o SubSeq(s, k + 1, Len(s))

\* TextBuffer::prev_char_boundary
prev_char_boundary(b) ==
    IF CharsBefore(b) = 0 THEN 0 ELSE ByteLen(SubSeq(b.text, 1, CharsBefore(b) - 1))

\* TextBuffer::next_char_boundary
next_char_boundary(b) ==
    IF CharsBefore(b) < Len(b.text)
    THEN b.cursor + Utf8Len(b.text[CharsBefore(b) + 1])
    ELSE ByteLen(b.text)

\* mutant: the cursor advances by one byte whatever the character
insert_char_one_byte(b, c) ==
    [text |-> SubSeq(b.text, 1, CharsBefore(b)) \o <<c>>
                  \o SubSeq(b.text, CharsBefore(b) + 1, Len(b.text)),
     cursor |-> b.cursor + 1]

\* TextBuffer::insert_char
insert_char(b, c) ==
    [text |-> SubSeq(b.text, 1, CharsBefore(b)) \o <<c>>
                  \o SubSeq(b.text, CharsBefore(b) + 1, Len(b.text)),
     cursor |-> b.cursor + Utf8Len(c)]

\* TextBuffer::insert_str
insert_str(b, s) ==
    [text |-> SubSeq(b.text, 1, CharsBefore(b)) \o s
                  \o SubSeq(b.text, CharsBefore(b) + 1, Len(b.text)),
     cursor |-> b.cursor + ByteLen(s)]

\* TextBuffer::backspace; the bool it returns is cursor > 0
backspace(b) ==
    IF b.cursor > 0
    THEN [text |-> RemoveChar(b.text, CharsBefore(b)), cursor |-> prev_char_boundary(b)]
    ELSE b

\* TextBuffer::delete; the bool it returns is cursor < text.len()
delete(b) ==
    IF b.cursor < ByteLen(b.text)
    THEN [b EXCEPT !.text = RemoveChar(b.text, CharsBefore(b) + 1)]
    ELSE b

\* TextBuffer::move_left
move_left(b) == IF b.cursor > 0 THEN [b EXCEPT !.cursor = prev_char_boundary(b)] ELSE b

\* TextBuffer::move_right
move_right(b) ==
    IF b.cursor < ByteLen(b.text) THEN [b EXCEPT !.cursor = next_char_boundary(b)] ELSE b

\* TextBuffer::move_to_start
move_to_start(b) == [b EXCEPT !.cursor = 0]

\* TextBuffer::move_to_end
move_to_end(b) == [b EXCEPT !.cursor = ByteLen(b.text)]

\* TextBuffer::char_before_cursor, called with cursor > 0
char_before_cursor(b) == b.text[CharsBefore(b)]

\* first loop of delete_word_backward: skip trailing whitespace
RECURSIVE SkipWhitespaceBackward(_)
SkipWhitespaceBackward(b) ==
    IF b.cursor > 0 /\ IsWhitespace(char_before_cursor(b))
    THEN SkipWhitespaceBackward(backspace(b))
    ELSE b

\* second loop of delete_word_backward: delete until whitespace or start
RECURSIVE DeleteUntilWhitespace(_)
DeleteUntilWhitespace(b) ==
    IF b.cursor > 0 /\ ~IsWhitespace(char_before_cursor(b))
    THEN DeleteUntilWhitespace(backspace(b))
    ELSE b

\* TextBuffer::delete_word_backward
delete_word_backward(b) ==
    IF b.cursor = 0 THEN b ELSE DeleteUntilWhitespace(SkipWhitespaceBackward(b))

\* the keys of the instance: the named keys, a letter, a function key and a
\* key of one non-ASCII character
BufferKeys ==
    {"backspace", "delete", "left", "right", "home", "end", "enter", "escape",
     "tab", "space", "a", "f1", "U+00E9"}

\* key.len() == 1 and the character is ASCII graphic or alphanumeric
IsPrintableKey(key) == key = "a"

\* char::to_ascii_uppercase
ToAsciiUppercase(c) == IF c = "a" THEN "A" ELSE c

\* the buffer and the result process_key leaves
KeyOutcome(b, r) == [buffer |-> b, result |-> r]

\* TextBuffer::process_key
ProcessKey(b, key, shift, ctrl, cmd) ==
    CASE key = "backspace" ->
             KeyOutcome(IF ctrl \/ cmd THEN delete_word_backward(b) ELSE backspace(b),
                        "TextChanged")
      [] key = "delete" -> KeyOutcome(delete(b), "TextChanged")
      [] key = "left" -> KeyOutcome(move_left(b), "Consumed")
      [] key = "right" -> KeyOutcome(move_right(b), "Consumed")
      [] key = "home" -> KeyOutcome(move_to_start(b), "Consumed")
      [] key = "end" -> KeyOutcome(move_to_end(b), "Consumed")
      [] key = "enter" -> KeyOutcome(b, "Submit")
      [] key = "escape" -> KeyOutcome(b, "Cancel")
      [] key = "tab" -> KeyOutcome(b, "Ignored")
      [] key = "space" -> KeyOutcome(insert_char(b, " "), "TextChanged")
      [] OTHER ->
             IF IsPrintableKey(key)
             THEN KeyOutcome(insert_char(b, IF shift THEN ToAsciiUppercase(key) ELSE key),
                             "TextChanged")
             ELSE KeyOutcome(b, "Ignored")

\* buffer.process_key(key, shift, ctrl, cmd)
process_key(key, shift, ctrl, cmd) ==
    /\ Len(ProcessKey(buffer, key, shift, ctrl, cmd).buffer.text) <= MaxText
    /\ buffer' = ProcessKey(buffer, key, shift, ctrl, cmd).buffer
    /\ key_result' = [key |-> key, result |-> ProcessKey(buffer, key, shift, ctrl, cmd).result]
    /\ UNCHANGED outside_buffer

\* the texts set_text is called with
BufferTexts == {<<"a", " ">>, <<"U+00E9", "a">>}

\* TextBuffer::set_text
set_text(s) ==
    /\ buffer' = [text |-> s, cursor |-> ByteLen(s)]
    /\ key_result' = [key |-> "None", result |-> "None"]
    /\ UNCHANGED outside_buffer

\* TextBuffer::clear
clear_buffer ==
    /\ buffer' = [text |-> <<>>, cursor |-> 0]
    /\ key_result' = [key |-> "None", result |-> "None"]
    /\ UNCHANGED outside_buffer

\* TextBuffer::with_text: the owner replaces its buffer by a new one
with_text(s) ==
    /\ buffer' = [text |-> s, cursor |-> ByteLen(s)]
    /\ key_result' = [key |-> "None", result |-> "None"]
    /\ UNCHANGED outside_buffer

\* the characters insert_char is called with
BufferChars == {"a", " ", "U+00E9"}

\* a direct call of an editing method leaves b as the buffer
Edit(b) ==
    /\ Len(b.text) <= MaxText
    /\ buffer' = b
    /\ key_result' = [key |-> "None", result |-> "None"]
    /\ UNCHANGED outside_buffer

\* buffer.insert_char(c)
call_insert_char(c) == Edit(insert_char(buffer, c))

\* buffer.insert_str(s)
call_insert_str(s) == Edit(insert_str(buffer, s))

\* buffer.backspace()
call_backspace == Edit(backspace(buffer))

\* buffer.delete()
call_delete == Edit(delete(buffer))

\* buffer.move_left()
call_move_left == Edit(move_left(buffer))

\* buffer.move_right()
call_move_right == Edit(move_right(buffer))

\* buffer.move_to_start()
call_move_to_start == Edit(move_to_start(buffer))

\* buffer.move_to_end()
call_move_to_end == Edit(move_to_end(buffer))

\* buffer.delete_word_backward()
call_delete_word_backward == Edit(delete_word_backward(buffer))

(***************************************************************************)
(* MessageList (src/ui/views/message_list.rs): focus and selection; a      *)
(* thread is its identity, focused_index counts from 0; the scroll offset  *)
(* ensure_focused_visible writes is read by no focus operation             *)
(***************************************************************************)
ThreadIds == 1..MaxThreads

\* the lists set_threads is called with: distinct identities
ThreadLists ==
    {ts \in SeqsUpTo(ThreadIds, MaxThreads) : \A i, j \in DOMAIN ts : i # j => ts[i] # ts[j]}

\* self.threads.iter().position(|t| t.id == *id), counted from 0; None is <<>>
Position(ts, id) ==
    IF \E i \in DOMAIN ts : ts[i] = id
    THEN Some(Min({i \in DOMAIN ts : ts[i] = id}) - 1)
    ELSE <<>>

\* a call that returned
Returned(op) == [op |-> op, panicked |-> FALSE]

\* a call that panicked on self.threads[self.focused_index]
Panicked(op) == [op |-> op, panicked |-> TRUE]

\* MessageList::set_threads
set_threads(ts) ==
    /\ ~list_ret.panicked
    /\ threads' = ts
    /\ list_ret' = Returned("set_threads")
    /\ UNCHANGED <<selected_thread_id, focused_index>>
    /\ UNCHANGED outside_list

\* MessageList::set_selected
set_selected(thread_id) ==
    /\ ~list_ret.panicked
    /\ selected_thread_id' = thread_id
    /\ focused_index' = IF thread_id # <<>> /\ Position(threads, thread_id[1]) # <<>>
                         THEN Position(threads, thread_id[1])[1]
                         ELSE focused_index
    /\ list_ret' = Returned("set_selected")
    /\ UNCHANGED threads
    /\ UNCHANGED outside_list

\* MessageList::focus_next
focus_next ==
    /\ ~list_ret.panicked
    /\ IF focused_index + 1 < Len(threads)
       THEN /\ focused_index' = focused_index + 1
            /\ selected_thread_id' = Some(threads[focused_index + 2])
       ELSE UNCHANGED <<focused_index, selected_thread_id>>
    /\ list_ret' = Returned("focus_next")
    /\ UNCHANGED threads
    /\ UNCHANGED outside_list

\* MessageList::focus_previous; the index expression panics when the
\* decremented focused_index is not below threads.len()
focus_previous ==
    /\ ~list_ret.panicked
    /\ IF focused_index > 0
       THEN /\ focused_index' = focused_index - 1
            /\ IF focused_index - 1 < Len(threads)
               THEN /\ selected_thread_id' = Some(threads[focused_index])
                    /\ list_ret' = Returned("focus_previous")
               ELSE /\ UNCHANGED selected_thread_id
                    /\ list_ret' = Panicked("focus_previous")
       ELSE /\ UNCHANGED <<focused_index, selected_thread_id>>
            /\ list_ret' = Returned("focus_previous")
    /\ UNCHANGED threads
    /\ UNCHANGED outside_list

(***************************************************************************)
(* Specifications                                                          *)
(***************************************************************************)
AllOrders == UNION {Orders(S) : S \in SUBSET EmailIds}

\* two searching callers and one caller of update_settings and settings
Next ==
    \/ \E p \in Searchers, q \in ConcQueries : search(p, q)
    \/ \E p \in Searchers : track_query(p)
    \/ \E p \in Searchers : TrackQueryWrite(p)
    \/ \E p \in Searchers : Dispatch(p)
    \/ \E p \in Searchers, r \in ConcFtsResponses : FtsReturn(p, r)
    \/ \E p \in Searchers, r \in ConcSemResponses : SemReturn(p, r)
    \/ \E p \in Searchers : SearchResume(p)
    \/ \E p \in Searchers :
          \E o \in MetadataRequests(loc[p].fts_hits, loc[p].semantic_hits) : MergeBegin(p, o)
    \/ \E p \in Searchers : \E r \in MetaResponses(loc[p].ids) : MetaReturn(p, r)
    \/ \E p \in Searchers, o \in AllOrders : MergeFinish(p, o)
    \/ \E p \in Clients, s \in ToggleSettings : update_settings(p, s)
    \/ \E p \in Clients : UpdateSettingsWrite(p)
    \/ \E p \in Clients : settings_call(p)
    \/ \E p \in Clients : SettingsClone(p)
    \/ \E p \in Procs : Return(p)

Spec == Init /\ [][Next]_vars

\* one caller issuing searches and settings updates one after another
NextSeq ==
    \/ \E q \in SeqQueries : search("s1", q)
    \/ track_query("s1")
    \/ TrackQueryWrite("s1")
    \/ Dispatch("s1")
    \/ \E r \in SeqFtsResponses : FtsReturn("s1", r)
    \/ \E r \in SeqSemResponses : SemReturn("s1", r)
    \/ SearchResume("s1")
    \/ \E o \in MetadataRequests(loc["s1"].fts_hits, loc["s1"].semantic_hits) : MergeBegin("s1", o)
    \/ \E r \in MetaResponses(loc["s1"].ids) : MetaReturn("s1", r)
    \/ \E o \in AllOrders : MergeFinish("s1", o)
    \/ \E s \in SettingsValues : update_settings("s1", s)
    \/ UpdateSettingsWrite("s1")
    \/ Return("s1")

SpecSeq == Init /\ [][NextSeq]_vars

\* one caller; the backends may report scores of 0 and below
NextZero ==
    \/ \E q \in ZeroQueries : search("s1", q)
    \/ track_query("s1")
    \/ TrackQueryWrite("s1")
    \/ Dispatch("s1")
    \/ \E r \in ZeroFtsResponses : FtsReturn("s1", r)
    \/ \E r \in ZeroSemResponses : SemReturn("s1", r)
    \/ SearchResume("s1")
    \/ \E o \in MetadataRequests(loc["s1"].fts_hits, loc["s1"].semantic_hits) : MergeBegin("s1", o)
    \/ \E r \in MetaResponses(loc["s1"].ids) : MetaReturn("s1", r)
    \/ \E o \in AllOrders : MergeFinish("s1", o)
    \/ \E s \in ZeroSettings : update_settings("s1", s)
    \/ UpdateSettingsWrite("s1")
    \/ Return("s1")

SpecZero == Init /\ [][NextZero]_vars

\* two callers page through the same lexical query under fixed settings
NextPage ==
    \/ \E p \in Searchers, q \in PageQueries : search(p, q)
    \/ \E p \in Searchers : track_query(p)
    \/ \E p \in Searchers : TrackQueryWrite(p)
    \/ \E p \in Searchers : Dispatch(p)
    \/ \E p \in Searchers, r \in PageFtsResponses : FtsReturn(p, r)
    \/ \E p \in Searchers : SearchResume(p)
    \/ \E p \in Searchers :
           \E o \in MetadataRequests(loc[p].fts_hits, loc[p].semantic_hits) : MergeBegin(p, o)
    \/ \E p \in Searchers : \E r \in MetaResponses(loc[p].ids) : MetaReturn(p, r)
    \/ \E p \in Searchers, o \in AllOrders : MergeFinish(p, o)

SpecPage == Init /\ [][NextPage]_vars

\* two callers, each searching or reading the history
NextHist ==
    \/ \E p \in Searchers, q \in HistQueries : search(p, q)
    \/ \E p \in Searchers : track_query(p)
    \/ \E p \in Searchers : TrackQueryWrite(p)
    \/ \E p \in Searchers : Dispatch(p)
    \/ \E p \in Searchers, r \in HistFtsResponses : FtsReturn(p, r)
    \/ \E p \in Searchers : SearchResume(p)
    \/ \E p \in Searchers :
           \E o \in MetadataRequests(loc[p].fts_hits, loc[p].semantic_hits) : MergeBegin(p, o)
    \/ \E p \in Searchers : \E r \in MetaResponses(loc[p].ids) : MetaReturn(p, r)
    \/ \E p \in Searchers, o \in AllOrders : MergeFinish(p, o)
    \/ \E p \in Searchers, n \in HistLimits : recent_queries_call(p, n)
    \/ \E p \in Searchers : RecentQueriesTake(p)
    \/ \E p \in Searchers : Return(p)

SpecHist == Init /\ [][NextHist]_vars

\* one caller fills the history to its cap and goes on searching
NextCap ==
    \/ \E q \in CapQueries(recent_queries) : search("s1", q)
    \/ track_query("s1")
    \/ TrackQueryWrite("s1")
    \/ Dispatch("s1")
    \/ \E r \in HistFtsResponses : FtsReturn("s1", r)
    \/ SearchResume("s1")
    \/ \E o \in MetadataRequests(loc["s1"].fts_hits, loc["s1"].semantic_hits) : MergeBegin("s1", o)
    \/ \E r \in MetaResponses(loc["s1"].ids) : MetaReturn("s1", r)
    \/ \E o \in AllOrders : MergeFinish("s1", o)
    \/ Return("s1")

SpecCap == Init /\ [][NextCap]_vars

\* the calls of UndoService in any order, with time passing between them
NextUndo ==
    \/ \E t \in UndoTypes : new_action(t)
    \/ \E a \in Range(held) : record(a)
    \/ \E t \in UndoTypes : record_action(t)
    \/ pop_undo
    \/ pop_redo
    \/ \E a \in Range(held) : push_to_redo(a)
    \/ clear
    \/ \E w \in UndoWindows : set_undo_window(w)
    \/ \E e \in BOOLEAN : set_enabled(e)
    \/ Tick

SpecUndo == Init /\ [][NextUndo]_vars

\* keys typed into one TextBuffer and direct calls of its methods
NextBuffer ==
    \/ \E key \in BufferKeys, shift, ctrl, cmd \in BOOLEAN : process_key(key, shift, ctrl, cmd)
    \/ \E s \in BufferTexts : set_text(s)
    \/ clear_buffer
    \/ \E s \in BufferTexts : with_text(s)
    \/ \E c \in BufferChars : call_insert_char(c)
    \/ \E s \in BufferTexts : call_insert_str(s)
    \/ call_backspace
    \/ call_delete
    \/ call_move_left
    \/ call_move_right
    \/ call_move_to_start
    \/ call_move_to_end
    \/ call_delete_word_backward

SpecBuffer == Init /\ [][NextBuffer]_vars

\* one MessageList given threads, selections and focus moves
NextList ==
    \/ \E ts \in ThreadLists : set_threads(ts)
    \/ \E id \in {<<>>} \cup {Some(t) : t \in ThreadIds} : set_selected(id)
    \/ focus_next
    \/ focus_previous

SpecList == Init /\ [][NextList]_vars

\* s1 searches while s2 and u1 replace and read the settings
NextSettings ==
    \/ \E q \in ConcQueries : search("s1", q)
    \/ track_query("s1")
    \/ TrackQueryWrite("s1")
    \/ Dispatch("s1")
    \/ \E r \in ConcFtsResponses : FtsReturn("s1", r)
    \/ \E r \in ConcSemResponses : SemReturn("s1", r)
    \/ SearchResume("s1")
    \/ \E o \in MetadataRequests(loc["s1"].fts_hits, loc["s1"].semantic_hits) : MergeBegin("s1", o)
    \/ \E r \in MetaResponses(loc["s1"].ids) : MetaReturn("s1", r)
    \/ \E o \in AllOrders : MergeFinish("s1", o)
    \/ \E p \in {"s2", "u1"}, s \in SettingsValues : update_settings(p, s)
    \/ \E p \in {"s2", "u1"} : UpdateSettingsWrite(p)
    \/ \E p \in {"s2", "u1"} : settings_call(p)
    \/ \E p \in {"s2", "u1"} : SettingsClone(p)
    \/ \E p \in Procs : Return(p)

SpecSettings == Init /\ [][NextSettings]_vars

\* s1 searches while s2 asks for suggestions
NextSuggest ==
    \/ \E q \in SuggestQueries : search("s1", q)
    \/ track_query("s1")
    \/ TrackQueryWrite("s1")
    \/ Dispatch("s1")
    \/ \E r \in HistFtsResponses : FtsReturn("s1", r)
    \/ SearchResume("s1")
    \/ \E o \in MetadataRequests(loc["s1"].fts_hits, loc["s1"].semantic_hits) : MergeBegin("s1", o)
    \/ \E r \in MetaResponses(loc["s1"].ids) : MetaReturn("s1", r)
    \/ \E o \in AllOrders : MergeFinish("s1", o)
    \/ \E x \in SuggestPrefixes, n \in SuggestLimits : suggest_call("s2", x, n)
    \/ SuggestFilter("s2")
    \/ \E p \in Searchers : Return(p)

SpecSuggest == Init /\ [][NextSuggest]_vars

\* every public call at once: s1 searches, s2 replaces and reads the settings,
\* u1 reads the history and the suggestions
NextLive ==
    \/ \E q \in ConcQueries : search("s1", q)
    \/ track_query("s1")
    \/ TrackQueryWrite("s1")
    \/ Dispatch("s1")
    \/ \E r \in ConcFtsResponses : FtsReturn("s1", r)
    \/ \E r \in ConcSemResponses : SemReturn("s1", r)
    \/ SearchResume("s1")
    \/ \E o \in MetadataRequests(loc["s1"].fts_hits, loc["s1"].semantic_hits) : MergeBegin("s1", o)
    \/ \E r \in MetaResponses(loc["s1"].ids) : MetaReturn("s1", r)
    \/ \E o \in AllOrders : MergeFinish("s1", o)
    \/ \E s \in ToggleSettings : update_settings("s2", s)
    \/ UpdateSettingsWrite("s2")
    \/ settings_call("s2")
    \/ SettingsClone("s2")
    \/ recent_queries_call("u1", 1)
    \/ RecentQueriesTake("u1")
    \/ suggest_call("u1", <<>>, 1)
    \/ SuggestFilter("u1")
    \/ \E p \in Procs : Return(p)

\* the next step of the call p is in: the runtime polls a task that can run,
\* and a backend call that was issued returns
Progress(p) ==
    \/ track_query(p)
    \/ TrackQueryWrite(p)
    \/ Dispatch(p)
    \/ \E r \in ConcFtsResponses : FtsReturn(p, r)
    \/ \E r \in ConcSemResponses : SemReturn(p, r)
    \/ SearchResume(p)
    \/ \E o \in MetadataRequests(loc[p].fts_hits, loc[p].semantic_hits) : MergeBegin(p, o)
    \/ \E r \in MetaResponses(loc[p].ids) : MetaReturn(p, r)
    \/ \E o \in AllOrders : MergeFinish(p, o)
    \/ UpdateSettingsWrite(p)
    \/ SettingsClone(p)
    \/ RecentQueriesTake(p)
    \/ SuggestFilter(p)

\* no call is started by obligation; a started call is never starved of its
\* next step
SpecLive == Init /\ [][NextLive]_vars /\ \A p \in Procs : WF_vars(Progress(p))

(***************************************************************************)
(* Properties                                                              *)
(***************************************************************************)
Searching(p) == loc[p].op = "search"

Finished(p) == Searching(p) /\ pc[p] = "done"

\* the search is suspended inside fts_search, semantic_search or
\* get_email_metadata
SuspendedOnBackend(p) ==
    /\ Searching(p)
    /\ \/ pc[p] = "s_backends" /\ (loc[p].fts.st = "pending" \/ loc[p].sem.st = "pending")
       \/ pc[p] = "s_metadata" /\ loc[p].meta.st = "pending"

HoldsAny(l, p) == HoldsRead(l, p) \/ HoldsWrite(l, p)

\* C1: a search that is suspended on a backend call holds neither the
\* settings lock nor the history lock.
C1_NoLockAcrossBackendCall ==
    \A p \in Procs :
        SuspendedOnBackend(p) => ~HoldsAny(settings_lock, p) /\ ~HoldsAny(history_lock, p)

\* the semantic call of the search returned an error, every lexical search and
\* metadata fetch that was called succeeded
OnlySemanticFailed(p) ==
    /\ loc[p].sem.st = "done" /\ ~loc[p].sem.res.ok
    /\ loc[p].fts.st = "done" => loc[p].fts.res.ok
    /\ loc[p].meta.st = "done" => loc[p].meta.res.ok

\* C2: in every mode, a finished search whose only failing collaborator was
\* the semantic backend returned Ok.
C2_NeverFailsOnSemanticError ==
    \A p \in Procs : Finished(p) /\ OnlySemanticFailed(p) => loc[p].result.ok

\* the search waits for the settings lock
WaitsForSettings(p) == Searching(p) /\ pc[p] = "s_settings" /\ ~HoldsRead(settings_lock, p)

\* the search has the settings guard and has not returned
InProgress(p) == Searching(p) /\ pc[p] # "done" /\ HoldsRead(settings_lock, p)

\* C3: no search has to wait, before it can start its backend calls, for a
\* lock that another search keeps until it has finished.
C3_SearchesNotSerialized ==
    \A p \in Procs : WaitsForSettings(p) => ~\E q \in Procs \ {p} : InProgress(q)

\* the pages search can return for these hit lists and this metadata answer
PossiblePages(fts_hits, semantic_hits, found, s, q) ==
    IF EmailIdsOf(fts_hits, semantic_hits) = {}
    THEN {ResultPage(<<>>, q, semantic_hits # <<>>)}
    ELSE {ResultPage(MergeScored(fts_hits, semantic_hits, o, s), q, semantic_hits # <<>>) :
             o \in Orders(found)}

HybridBoth(p) ==
    Searching(p) /\ loc[p].query.mode = "Hybrid" /\ SemanticAvailable(loc[p].seen, ai_service)

\* C4: a Hybrid search with semantic enabled and configured whose semantic
\* call failed returns Ok, with a page it can return when the semantic backend
\* answers the empty list, and used_semantic = FALSE.
C4_SemanticErrorIsNoHits ==
    \A p \in Procs :
        Finished(p) /\ HybridBoth(p) /\ OnlySemanticFailed(p) =>
            /\ loc[p].result.ok
            /\ loc[p].result.value.used_semantic = FALSE
            /\ loc[p].result \in
                 PossiblePages(loc[p].fts.res.value, <<>>,
                               IF loc[p].meta.st = "done" THEN loc[p].meta.res.value ELSE {},
                               loc[p].seen, loc[p].query)

C4_Witness ==
    \E p \in Procs :
        /\ Finished(p) /\ HybridBoth(p) /\ OnlySemanticFailed(p)
        /\ loc[p].result.ok
        /\ loc[p].result.value.hits # <<>>

LexicalFailed(p) == Searching(p) /\ loc[p].fts.st = "done" /\ ~loc[p].fts.res.ok

\* C5: once the lexical call of a search has failed, no metadata fetch is
\* issued and the search returns that error, in every mode, also when the
\* semantic call succeeded with hits.
C5_LexicalErrorIsFatal ==
    \A p \in Procs :
        LexicalFailed(p) =>
            /\ loc[p].meta_calls = 0
            /\ pc[p] \in {"s_backends", "done"}
            /\ pc[p] = "done" => loc[p].result = loc[p].fts.res

C5_Witness ==
    \E p \in Procs :
        /\ LexicalFailed(p) /\ pc[p] = "done"
        /\ loc[p].sem.st = "done" /\ loc[p].sem.res.ok /\ loc[p].sem.res.value # <<>>

Dispatched(p) == Searching(p) /\ pc[p] \in {"s_backends", "s_merge", "s_metadata", "done"}

\* C6: the semantic backend is called only in Semantic or Hybrid mode with
\* semantic enabled and an AI service configured; in FullText mode, and in
\* Hybrid mode without them, exactly the lexical call is made and the semantic
\* hits are empty.
C6_SemanticCalledOnlyWhenAvailable ==
    \A p \in Procs :
        /\ Searching(p) /\ loc[p].sem_calls > 0 =>
              /\ loc[p].query.mode \in {"Semantic", "Hybrid"}
              /\ loc[p].seen.semantic_enabled /\ ai_service
        /\ Dispatched(p) /\ (loc[p].query.mode = "FullText"
                               \/ (loc[p].query.mode = "Hybrid" /\ ~HybridBoth(p))) =>
              /\ loc[p].sem_calls = 0 /\ loc[p].fts_calls = 1
              /\ loc[p].semantic_hits = <<>>
              /\ pc[p] = "done" /\ loc[p].result.ok => ~loc[p].result.value.used_semantic

C6_Witness ==
    \E p \in Procs :
        /\ Finished(p) /\ loc[p].query.mode = "Hybrid"
        /\ ai_service /\ ~loc[p].seen.semantic_enabled
        /\ loc[p].fts_calls = 1 /\ loc[p].sem_calls = 0
        /\ loc[p].result.ok /\ loc[p].result.value.hits # <<>>

\* C7: a Semantic-mode search calls exactly one backend search: the semantic
\* one when semantic is enabled and configured, else the lexical one, and then
\* it returns Ok with lexical-only hits and used_semantic = FALSE whenever the
\* lexical call and the metadata fetch succeed.
C7_SemanticModeOneBackend ==
    \A p \in Procs :
        Dispatched(p) /\ loc[p].query.mode = "Semantic" =>
            /\ loc[p].fts_calls + loc[p].sem_calls = 1
            /\ SemanticAvailable(loc[p].seen, ai_service) => loc[p].sem_calls = 1
            /\ ~SemanticAvailable(loc[p].seen, ai_service) =>
                  /\ loc[p].fts_calls = 1
                  /\ (/\ pc[p] = "done" /\ loc[p].fts.res.ok
                      /\ loc[p].meta.st = "done" => loc[p].meta.res.ok) =>
                        /\ loc[p].result.ok
                        /\ ~loc[p].result.value.used_semantic
                        /\ \A i \in DOMAIN loc[p].result.value.hits :
                              loc[p].result.value.hits[i].source = "FullText"

C7_Witness ==
    \E p \in Procs :
        /\ Finished(p) /\ loc[p].query.mode = "Semantic"
        /\ ~SemanticAvailable(loc[p].seen, ai_service)
        /\ loc[p].fts_calls = 1 /\ loc[p].sem_calls = 0
        /\ loc[p].result.ok /\ loc[p].result.value.hits # <<>>

\* C8: in Hybrid mode with semantic enabled and configured both backend calls
\* are issued before either is awaited to completion, and the search goes on
\* (to merging or to returning an error) only when both have completed.
C8_HybridAwaitsBoth ==
    \A p \in Procs :
        Dispatched(p) /\ HybridBoth(p) =>
            /\ loc[p].fts_calls = 1 /\ loc[p].sem_calls = 1
            /\ loc[p].fts.st # "none" /\ loc[p].sem.st # "none"
            /\ pc[p] # "s_backends" => loc[p].fts.st = "done" /\ loc[p].sem.st = "done"

\* the lexical call has failed and the search still awaits the semantic call
C8_Witness ==
    \E p \in Procs :
        /\ HybridBoth(p) /\ pc[p] = "s_backends"
        /\ LexicalFailed(p) /\ loc[p].sem.st = "pending"

\* the identities of the lists the backends returned to the search
ReturnedIds(p) ==
    EmailIdsOf(IF loc[p].fts.st = "done" /\ loc[p].fts.res.ok THEN loc[p].fts.res.value ELSE <<>>,
               IF loc[p].sem.st = "done" /\ loc[p].sem.res.ok THEN loc[p].sem.res.value ELSE <<>>)

\* C9: a search fetches metadata at most once, after its backend calls have
\* completed, for each identity of the union of the hit lists exactly once;
\* with an empty union it fetches nothing and returns an empty page.
C9_OneMetadataFetch ==
    \A p \in Procs :
        Searching(p) =>
            /\ loc[p].meta_calls <= 1
            /\ loc[p].meta_calls = 1 =>
                  /\ loc[p].fts.st # "pending" /\ loc[p].sem.st # "pending"
                  /\ Range(loc[p].ids) = ReturnedIds(p)
                  /\ Len(loc[p].ids) = Cardinality(ReturnedIds(p))
            /\ pc[p] = "done" /\ loc[p].result.ok /\ ReturnedIds(p) = {} =>
                  /\ loc[p].meta_calls = 0
                  /\ loc[p].result.value.hits = <<>> /\ loc[p].result.value.total = 0

\* an identity in both hit lists is requested once
C9_Witness ==
    \E p \in Procs :
        /\ Searching(p) /\ loc[p].meta_calls = 1
        /\ Len(loc[p].ids) = 2
        /\ \E i \in DOMAIN loc[p].fts_hits, j \in DOMAIN loc[p].semantic_hits :
              loc[p].fts_hits[i].email_id = loc[p].semantic_hits[j].email_id

\* the scores a hit list gives an identity; 0 when it is absent from the list
LexicalScores(hits, id) ==
    IF \E i \in DOMAIN hits : hits[i].email_id = id
    THEN {hits[i].rank : i \in {j \in DOMAIN hits : hits[j].email_id = id}}
    ELSE {0}

SemanticScores(hits, id) ==
    IF \E i \in DOMAIN hits : hits[i].email_id = id
    THEN {hits[i].relevance : i \in {j \in DOMAIN hits : hits[j].email_id = id}}
    ELSE {0}

\* C10: the score of every returned hit is lexical_score * fts_weight +
\* semantic_score * semantic_weight, a score being 0 for an identity absent
\* from that hit list.
C10_BlendedScore ==
    \A p \in Procs :
        Finished(p) /\ loc[p].result.ok =>
            \A i \in DOMAIN loc[p].result.value.hits :
                LET h == loc[p].result.value.hits[i]
                IN \E l \in LexicalScores(loc[p].fts_hits, h.email_id),
                      m \in SemanticScores(loc[p].semantic_hits, h.email_id) :
                       h.score = l * loc[p].seen.fts_weight + m * loc[p].seen.semantic_weight

\* weights 0.6/0.4: lexical 0.9 and semantic 0.5 give 0.74, lexical 0.8 alone
\* gives 0.48
C10_Witness ==
    \E p \in Procs :
        /\ Finished(p) /\ loc[p].result.ok /\ loc[p].seen = DefaultSettings
        /\ Len(loc[p].result.value.hits) = 2
        /\ loc[p].result.value.hits[1].score = 74
        /\ loc[p].result.value.hits[1].source = "Both"
        /\ loc[p].result.value.hits[2].score = 48
        /\ loc[p].result.value.hits[2].source = "FullText"

\* the identities of a list of SearchHit
HitIds(hits) == {hits[i].email_id : i \in DOMAIN hits}

\* the metadata records the search received
Found(p) == IF loc[p].meta.st = "done" /\ loc[p].meta.res.ok THEN loc[p].meta.res.value ELSE {}

\* the blended scores the returned hit lists give an identity
PossibleBlends(p, id) ==
    {l * loc[p].seen.fts_weight + m * loc[p].seen.semantic_weight :
        l \in LexicalScores(loc[p].fts_hits, id),
        m \in SemanticScores(loc[p].semantic_hits, id)}

\* a backend gave the identity a score above 0, so it has a provenance
HasSource(p, id) ==
    \/ \A l \in LexicalScores(loc[p].fts_hits, id) : l > 0
    \/ \A m \in SemanticScores(loc[p].semantic_hits, id) : m > 0

\* C11: an identity whose blended score is below min_score is in no page and
\* not in the list total counts; one whose blended score equals min_score (and
\* has metadata and a provenance) is in that list.
C11_ThresholdExclusion ==
    \A p \in Procs :
        Finished(p) /\ loc[p].result.ok =>
            /\ loc[p].result.value.total = Len(loc[p].merged)
            /\ \A i \in DOMAIN loc[p].result.value.hits :
                  loc[p].result.value.hits[i].score >= loc[p].seen.min_score
            /\ \A id \in EmailIds :
                  /\ (\A b \in PossibleBlends(p, id) : b < loc[p].seen.min_score) =>
                        /\ id \notin HitIds(loc[p].merged)
                        /\ id \notin HitIds(loc[p].result.value.hits)
                  /\ (/\ id \in Found(p) /\ HasSource(p, id)
                      /\ \A b \in PossibleBlends(p, id) : b = loc[p].seen.min_score) =>
                        id \in HitIds(loc[p].merged)

\* one returned hit has exactly min_score, one identity with metadata is
\* dropped
C11_Witness ==
    \E p \in Procs :
        /\ Finished(p) /\ loc[p].result.ok
        /\ \E i \in DOMAIN loc[p].result.value.hits :
              loc[p].result.value.hits[i].score = loc[p].seen.min_score
        /\ \E id \in Found(p) : id \notin HitIds(loc[p].merged)
        /\ loc[p].result.value.total = 1

NonIncreasing(hits) == \A i, j \in DOMAIN hits : i < j => hits[i].score >= hits[j].score

\* C15: the scores of the merged list and of the returned page are
\* non-increasing.
C15_SortedDescending ==
    \A p \in Procs :
        Finished(p) /\ loc[p].result.ok =>
            NonIncreasing(loc[p].merged) /\ NonIncreasing(loc[p].result.value.hits)

C15_Witness ==
    \E p \in Procs :
        /\ Finished(p) /\ loc[p].result.ok
        /\ Len(loc[p].result.value.hits) = 2
        /\ loc[p].result.value.hits[1].score > loc[p].result.value.hits[2].score

\* C16: used_semantic is true exactly when the semantic call returned at least
\* one hit (not when it was not made, returned nothing or failed).
C16_UsedSemantic ==
    \A p \in Procs :
        Finished(p) /\ loc[p].result.ok =>
            loc[p].result.value.used_semantic =
                (loc[p].sem.st = "done" /\ loc[p].sem.res.ok /\ loc[p].sem.res.value # <<>>)

\* semantic hits were returned but none got into the page
C16_Witness ==
    \E p \in Procs :
        /\ Finished(p) /\ loc[p].result.ok
        /\ loc[p].result.value.used_semantic
        /\ loc[p].result.value.hits = <<>> /\ loc[p].result.value.total = 0

\* C17: a search whose metadata fetch failed returns that error and no page.
C17_MetadataErrorIsFatal ==
    \A p \in Procs :
        Finished(p) /\ loc[p].meta.st = "done" /\ ~loc[p].meta.res.ok =>
            /\ ~loc[p].result.ok
            /\ loc[p].result = loc[p].meta.res

\* both backend searches succeeded with hits
C17_Witness ==
    \E p \in Procs :
        /\ Finished(p) /\ loc[p].meta.st = "done" /\ ~loc[p].meta.res.ok
        /\ loc[p].fts.st = "done" /\ loc[p].fts.res.ok /\ loc[p].fts.res.value # <<>>
        /\ loc[p].sem.st = "done" /\ loc[p].sem.res.ok /\ loc[p].sem.res.value # <<>>

\* the number of hits of a list that carry the identity
Occurrences(hits, id) == Cardinality({i \in DOMAIN hits : hits[i].email_id = id})

\* C12: every identity of the returned hit lists that has a metadata record
\* and whose blended score is not below min_score is exactly once in the
\* merged list, whatever the settings and the backend scores.
C12_UnionCompleteness ==
    \A p \in Procs :
        Finished(p) /\ loc[p].result.ok =>
            \A id \in ReturnedIds(p) \cap Found(p) :
                (\A b \in PossibleBlends(p, id) : b >= loc[p].seen.min_score) =>
                    Occurrences(loc[p].merged, id) = 1

\* two finished calls of one paging sequence: same query but for the offset,
\* same settings, and backends that returned the same hits to both
SameSearch(p, q) ==
    /\ Finished(p) /\ Finished(q)
    /\ loc[p].result.ok /\ loc[q].result.ok
    /\ loc[p].query.text = loc[q].query.text
    /\ loc[p].query.mode = loc[q].query.mode
    /\ loc[p].query.limit = loc[q].query.limit
    /\ loc[p].seen = loc[q].seen
    /\ loc[p].fts = loc[q].fts
    /\ loc[p].sem = loc[q].sem
    /\ loc[p].meta = loc[q].meta

\* C14: the pages at offsets 0 and L of the same search, limit L, concatenate
\* to the first 2L hits of the merged list: no identity repeated, none missing,
\* also when hits have equal scores.
C14_PaginationLaw ==
    \A p, q \in Searchers :
        /\ SameSearch(p, q)
        /\ loc[p].query.offset = 0
        /\ loc[q].query.offset = loc[p].query.limit
        => LET pages == loc[p].result.value.hits \o loc[q].result.value.hits
           IN /\ \A id \in HitIds(pages) : Occurrences(pages, id) = 1
              /\ Len(loc[p].merged) <= 2 * loc[p].query.limit
                    => HitIds(pages) = HitIds(loc[p].merged)

\* empty or made of whitespace only
IsBlank(text) == \A i \in DOMAIN text : text[i] = " "

\* the backend calls the search of p has issued
BackendCalls(p) == loc[p].fts_calls + loc[p].sem_calls

Recorded(text) == \E i \in DOMAIN recent_queries : recent_queries[i] = text

\* C18: a search with non-blank text puts the text at the front of the
\* history in a step that precedes its first backend call, and the text is
\* still recorded when the search has finished, with hits, without or with an
\* error (fewer than HistoryCap entries).
C18_RecordedBeforeSearch ==
    /\ [](\A p \in Procs :
            Searching(p) /\ ~IsBlank(loc[p].query.text) /\ (BackendCalls(p) > 0 \/ Finished(p))
                => Recorded(loc[p].query.text))
    /\ [][\A p \in Procs :
            Searching(p) /\ ~IsBlank(loc[p].query.text) =>
                /\ pc[p] = "s_history" /\ pc'[p] # "s_history" =>
                      /\ Head(recent_queries') = loc[p].query.text
                      /\ BackendCalls(p)' = 0
                /\ BackendCalls(p) = 0 /\ BackendCalls(p)' > 0 => Recorded(loc[p].query.text)]_vars

C18_Witness ==
    \E p \in Procs :
        /\ Finished(p)
        /\ ~IsBlank(loc[p].query.text)
        /\ ~loc[p].result.ok
        /\ BackendCalls(p) > 0
        /\ Head(recent_queries) = loc[p].query.text

NoDuplicates(s) == \A i, j \in DOMAIN s : s[i] = s[j] => i = j

\* the entries other than q, in order
Others(s, q) == SelectSeq(s, LAMBDA x : x # q)

IsPrefix(s, u) == Len(s) <= Len(u) /\ \A i \in DOMAIN s : s[i] = u[i]

\* the step in which the search of p updates the history
TrackStep(p) == Searching(p) /\ pc[p] = "s_history" /\ pc'[p] # "s_history"

\* the step in which recent_queries, called by p, copies the history
ReadStep(p) == loc[p].op = "recent_queries" /\ pc[p] = "h_read" /\ pc'[p] = "done"

\* C19: under every interleaving the history holds no string twice; the
\* history update of search(q) leaves q first and once, and the other entries
\* in the order they had; recent_queries(limit) returns the first entries of the
\* history, most recent first.
C19_HistoryDedup ==
    /\ [](NoDuplicates(recent_queries))
    /\ [][\A p \in Procs :
            /\ TrackStep(p) =>
                  /\ Head(recent_queries') = loc[p].query.text
                  /\ NoDuplicates(recent_queries')
                  /\ IsPrefix(Others(recent_queries', loc[p].query.text),
                              Others(recent_queries, loc[p].query.text))
                  /\ Len(recent_queries) < HistoryCap =>
                         Others(recent_queries', loc[p].query.text)
                             = Others(recent_queries, loc[p].query.text)
            /\ ReadStep(p) =>
                  /\ loc'[p].result.ok
                  /\ IsPrefix(loc'[p].result.value, recent_queries)
                  /\ NoDuplicates(loc'[p].result.value)
                  /\ Len(loc'[p].result.value) = Min({loc[p].limit, Len(recent_queries)})]_vars

\* the same text submitted by two searches, with two other entries
C19_Witness ==
    \E p, q \in Searchers :
        /\ p # q
        /\ Finished(p)
        /\ Searching(q) /\ pc[q] = "s_dispatch"
        /\ loc[p].query.text = loc[q].query.text
        /\ Len(recent_queries) = 3
        /\ Head(recent_queries) = loc[q].query.text

\* a search of blank text, before or after the step
BlankSearch(p) ==
    \/ Searching(p) /\ IsBlank(loc[p].query.text)
    \/ Searching(p)' /\ IsBlank(loc'[p].query.text)

\* C20: the history never holds an empty or whitespace-only string; no step of
\* a search with such text changes the history; that search still issues its
\* backend call.
C20_BlankNeverRecorded ==
    /\ [](\A i \in DOMAIN recent_queries : ~IsBlank(recent_queries[i]))
    /\ [](\A p \in Procs :
            Finished(p) /\ IsBlank(loc[p].query.text) => BackendCalls(p) > 0)
    /\ [][\A p \in Procs :
            BlankSearch(p) /\ (pc'[p] # pc[p] \/ loc'[p] # loc[p])
                => recent_queries' = recent_queries]_vars

\* a search of whitespace text returned a hit and the history is still empty
C20_Witness ==
    \E p \in Procs :
        /\ Finished(p)
        /\ loc[p].query.text = <<" ">>
        /\ loc[p].result.ok
        /\ loc[p].result.value.total > 0
        /\ recent_queries = <<>>

\* C21: the history never holds more than 100 entries; a history update that
\* adds a new text to a full history drops the last entry, the one submitted
\* least recently, and keeps the others in order behind the new text.
C21_HistoryCapped ==
    /\ [](Len(recent_queries) <= 100)
    /\ [][\A p \in Procs :
            TrackStep(p) /\ Len(recent_queries) = 100 /\ ~Recorded(loc[p].query.text)
                => recent_queries' = <<loc[p].query.text>> \o SubSeq(recent_queries, 1, 99)]_vars

\* a full history whose first text was dropped: it starts with "101", ends with "2"
C21_Witness ==
    /\ Len(recent_queries) = 100
    /\ recent_queries[1] = <<"1", "0", "1">>
    /\ recent_queries[100] = <<"2">>

\* no whitespace at either end
IsTrimmed(text) == text = <<>> \/ (text[1] # " " /\ text[Len(text)] # " ")

RECURSIVE TrimStart(_)
TrimStart(text) ==
    IF text # <<>> /\ Head(text) = " " THEN TrimStart(Tail(text)) ELSE text

RECURSIVE TrimEnd(_)
TrimEnd(text) ==
    IF text # <<>> /\ text[Len(text)] = " " THEN TrimEnd(SubSeq(text, 1, Len(text) - 1)) ELSE text

Trimmed(text) == TrimEnd(TrimStart(text))

\* C22: every history entry is a trimmed text, and no two entries differ only
\* in surrounding whitespace.
C22_TrimmedRecorded ==
    /\ \A i \in DOMAIN recent_queries : IsTrimmed(recent_queries[i])
    /\ \A i, j \in DOMAIN recent_queries :
           Trimmed(recent_queries[i]) = Trimmed(recent_queries[j]) => i = j

\* the text with its capital letters replaced by the small ones
Fold(text) ==
    [i \in DOMAIN text |->
        IF text[i] = "A" THEN "a" ELSE IF text[i] = "B" THEN "b" ELSE text[i]]

\* the positions of the history whose entry starts with the prefix, case ignored
Qualifying(prefix) ==
    {i \in DOMAIN recent_queries :
        /\ Len(prefix) <= Len(recent_queries[i])
        /\ \A k \in DOMAIN prefix : Fold(recent_queries[i])[k] = Fold(prefix)[k]}

\* the step in which suggest, called by p, filters the history
SuggestStep(p) == loc[p].op = "suggest" /\ pc[p] = "h_suggest" /\ pc'[p] = "done"

\* C23: suggest returns the first limit entries of the history, in history
\* order, whose lowercase form starts with the lowercase prefix, and no step of
\* suggest changes the history.
C23_Suggest ==
    [][\A p \in Procs :
        /\ SuggestStep(p) =>
              LET R == loc'[p].result.value
                  M == Qualifying(loc[p].prefix)
              IN /\ loc'[p].result.ok
                 /\ Len(R) = Min({loc[p].limit, Cardinality(M)})
                 /\ \A k \in DOMAIN R :
                        \E i \in M : /\ Cardinality({j \in M : j <= i}) = k
                                     /\ R[k] = recent_queries[i]
        /\ (loc[p].op = "suggest" \/ loc'[p].op = "suggest") /\ (pc'[p] # pc[p] \/ loc'[p] # loc[p])
              => recent_queries' = recent_queries]_vars

\* suggest("A", 2) passed over "b" and returned "a" and "Ab"
C23_Witness ==
    \E p \in Procs :
        /\ loc[p].op = "suggest" /\ pc[p] = "done"
        /\ loc[p].result.value = << <<"a">>, <<"A", "b">> >>
        /\ recent_queries = << <<"a">>, <<"b">>, <<"A", "b">> >>

\* the default and the complete arguments of the update_settings calls
WholeSettings ==
    { [semantic_enabled |-> TRUE, fts_weight |-> 6, semantic_weight |-> 4,
       min_score |-> 30, default_limit |-> 50],
      [semantic_enabled |-> FALSE, fts_weight |-> 6, semantic_weight |-> 4,
       min_score |-> 30, default_limit |-> 50],
      [semantic_enabled |-> TRUE, fts_weight |-> 10, semantic_weight |-> 10,
       min_score |-> 0, default_limit |-> 50],
      [semantic_enabled |-> TRUE, fts_weight |-> 3, semantic_weight |-> 7,
       min_score |-> 35, default_limit |-> 50] }

\* the step in which the search of p merges, scores and thresholds
MergeStep(p) == Searching(p) /\ pc[p] = "s_metadata" /\ pc'[p] = "done"

\* C24: the stored settings, every value settings() returns and every value a
\* search dispatches on is the default or one whole update_settings argument,
\* and a search merges with the settings value it dispatched on.
C24_SettingsAtomic ==
    /\ [](settings \in WholeSettings)
    /\ [](\A p \in Procs :
            /\ loc[p].op = "settings" /\ pc[p] = "done" =>
                  loc[p].result.ok /\ loc[p].result.value \in WholeSettings
            /\ Dispatched(p) => loc[p].seen \in WholeSettings
            /\ Dispatched(p) /\ pc[p] # "done" => settings = loc[p].seen)
    /\ [][\A p \in Procs : MergeStep(p) => settings = loc[p].seen]_vars

\* a search merged under replaced settings while an update_settings call waits
C24_Witness ==
    \E p, u \in Procs :
        /\ Searching(p) /\ pc[p] = "s_metadata"
        /\ loc[p].seen.min_score = 35
        /\ loc[u].op = "update_settings" /\ Queued(settings_lock, u)
        /\ loc[u].arg # settings

\* C25: every hit a search returns has a score of at least 0 and at most 1.0
\* (scores are in hundredths).
C25_ScoreInRange ==
    \A p \in Procs :
        Finished(p) /\ loc[p].result.ok =>
            \A i \in DOMAIN loc[p].result.value.hits :
                /\ loc[p].result.value.hits[i].score >= 0
                /\ loc[p].result.value.hits[i].score <= 100

\* the step is a call of record or record_action
RecordStep == undo_ret'.op \in {"record", "record_action"}

\* the action the call was given
RecordArg == undo_ret'.arg[1]

Undoable(a) == a.action_type # "PermanentDelete" /\ a.action_type # "Send"

\* C26 as stated: record of an undoable action while enabled empties the redo
\* stack and leaves the action on top of the undo stack; any other record
\* leaves both stacks unchanged.
C26_RecordOnTop ==
    [][RecordStep =>
          IF enabled /\ Undoable(RecordArg)
          THEN /\ redo_stack' = <<>>
               /\ undo_stack' # <<>>
               /\ undo_stack'[Len(undo_stack')] = RecordArg
          ELSE undo_stack' = undo_stack /\ redo_stack' = redo_stack]_vars

\* C26 amended: record of an undoable action while enabled empties the redo
\* stack and, when the action is within the configured undo window, leaves it
\* on top of the undo stack.  Any other record leaves both stacks unchanged.
C26_RecordFrame ==
    [][RecordStep =>
          IF enabled /\ Undoable(RecordArg)
          THEN /\ redo_stack' = <<>>
               /\ now - RecordArg.performed_at < undo_window =>
                      /\ undo_stack' # <<>>
                      /\ undo_stack'[Len(undo_stack')] = RecordArg
          ELSE undo_stack' = undo_stack /\ redo_stack' = redo_stack]_vars

\* a recorded action on top of an older one, the redo stack empty
C26_Witness ==
    /\ undo_ret.op \in {"record", "record_action"}
    /\ Len(undo_stack) = 2
    /\ undo_ret.arg = <<undo_stack[2]>>
    /\ undo_stack[1].performed_at < undo_stack[2].performed_at
    /\ redo_stack = <<>>

\* C27: whatever calls were made, the undo stack holds no PermanentDelete and
\* no Send action, and can_undo() is true only of an undoable action.
C27_NonUndoableNeverRecorded ==
    /\ \A i \in DOMAIN undo_stack : Undoable(undo_stack[i])
    /\ can_undo(undo_stack, undo_window, now) => Undoable(undo_stack[Len(undo_stack)])

\* record was called with a fresh Send action while enabled, with an action
\* on the undo stack
C27_Witness ==
    /\ undo_ret.op \in {"record", "record_action"}
    /\ undo_ret.arg # <<>>
    /\ undo_ret.arg[1].action_type = "Send"
    /\ undo_ret.arg[1].performed_at = now
    /\ enabled
    /\ undo_window > 0
    /\ undo_stack # <<>>

\* the step is a call of pop_undo
PopUndoStep == undo_ret'.op = "pop_undo"

\* younger than the configured window
Fresh(a) == now - a.performed_at < undo_window

\* C28: when can_undo() is true, pop_undo() called at once returns the action
\* peek_undo() shows; a pop_undo() that returns None removes no action that is
\* within the configured window.
C28_PopUndoReturnsPeeked ==
    [][PopUndoStep =>
          /\ can_undo(undo_stack, undo_window, now) =>
                 undo_ret'.value = peek_undo(undo_stack, undo_window, now)
          /\ undo_ret'.value = <<>> =>
                 SelectSeq(undo_stack', Fresh) = SelectSeq(undo_stack, Fresh)]_vars

\* C29: an action whose age has reached the configured window is not offered:
\* can_undo() is false when it is the most recent action, and pop_undo() does
\* not return it.
C29_WindowExpiry ==
    /\ [](undo_stack # <<>> /\ ~Fresh(undo_stack[Len(undo_stack)])
             => ~can_undo(undo_stack, undo_window, now))
    /\ [][PopUndoStep /\ undo_ret'.value # <<>> => Fresh(undo_ret'.value[1])]_vars

\* the most recent action has outlived the default window
C29_Witness ==
    /\ undo_stack # <<>>
    /\ undo_window = 30
    /\ now - undo_stack[Len(undo_stack)].performed_at = 30

\* the step is a call of process_key
ProcessKeyStep == key_result'.result # "None"

\* C30: process_key returns TextChanged only when the text has changed.
C30_TextChangedOnlyOnChange ==
    [][ProcessKeyStep /\ buffer'.text = buffer.text
          => key_result'.result # "TextChanged"]_vars

\* C31: two merges of the same lexical hits, semantic hits, metadata and
\* settings give the same list of hits, in the same order.
C31_MergeDeterministic ==
    \A p, q \in Searchers : SameSearch(p, q) => loc[p].merged = loc[q].merged

\* C32: every identity of the hit lists that has a metadata record reaches the
\* scoring step with a lexical or a semantic score above 0.
C32_NeitherNeverOccurs ==
    \A p \in Procs :
        Finished(p) /\ loc[p].result.ok =>
            \A id \in ReturnedIds(p) \cap Found(p) :
                \/ FtsScore(loc[p].fts_hits, id) > 0
                \/ SemanticScore(loc[p].semantic_hits, id) > 0


\* the tag the provenance rule gives a lexical and a semantic score
TagOf(l, m) ==
    CASE l > 0 /\ m > 0 -> "Both"
      [] l > 0 /\ ~(m > 0) -> "FullText"
      [] ~(l > 0) /\ m > 0 -> "Semantic"
      [] OTHER -> "None"

C34_SnippetHighlightsMetadata ==
    \A p \in Procs :
        Finished(p) /\ loc[p].result.ok =>
            \A i \in DOMAIN loc[p].merged :
                LET h == loc[p].merged[i]
                    lex == {k \in DOMAIN loc[p].fts_hits :
                               loc[p].fts_hits[k].email_id = h.email_id}
                    sem == {k \in DOMAIN loc[p].semantic_hits :
                               loc[p].semantic_hits[k].email_id = h.email_id}
                    meta == Metadata(h.email_id)
                IN /\ h.email_id \in Found(p)
                   /\ IF lex # {}
                      THEN \E k \in lex : h.snippet = loc[p].fts_hits[k].snippet
                      ELSE h.snippet = meta.snippet
                   /\ IF sem # {}
                      THEN \E k \in sem : h.highlights = loc[p].semantic_hits[k].highlights
                      ELSE h.highlights = <<>>
                   /\ h.thread_id = meta.thread_id /\ h.subject = meta.subject
                   /\ h.from = meta.from /\ h.date = meta.date
                   /\ h.is_read = meta.is_read

\* a semantic-only hit with the metadata snippet beside a lexical-only hit with
\* its lexical snippet and no highlights
C34_Witness ==
    \E p \in Procs :
        /\ Finished(p) /\ loc[p].result.ok
        /\ \E i, j \in DOMAIN loc[p].merged :
               /\ loc[p].merged[i].source = "Semantic"
               /\ loc[p].merged[i].snippet = Metadata(loc[p].merged[i].email_id).snippet
               /\ loc[p].merged[i].highlights # <<>>
               /\ loc[p].merged[j].source = "FullText"
               /\ loc[p].merged[j].snippet # Metadata(loc[p].merged[j].email_id).snippet
               /\ loc[p].merged[j].highlights = <<>>


\* the identities of the hit lists the metadata collaborator gave no record for
Missing(p) == ReturnedIds(p) \ Found(p)

\* C35: when the metadata fetch succeeds without a record for an identity of
\* the hit lists, search returns Ok, the identity is in no page and not in the
\* list total counts, and every other identity with a provenance and a blended
\* score not below min_score is still exactly once in that list.
C35_MissingMetadataDropped ==
    \A p \in Procs :
        Finished(p) /\ loc[p].meta.st = "done" /\ loc[p].meta.res.ok =>
            /\ loc[p].result.ok
            /\ loc[p].result.value.total = Len(loc[p].merged)
            /\ HitIds(loc[p].result.value.hits) \subseteq HitIds(loc[p].merged)
            /\ \A id \in Missing(p) : id \notin HitIds(loc[p].merged)
            /\ \A id \in ReturnedIds(p) \cap Found(p) :
                   /\ HasSource(p, id)
                   /\ \A b \in PossibleBlends(p, id) : b >= loc[p].seen.min_score
                   => Occurrences(loc[p].merged, id) = 1

\* one identity without a record is dropped while the other is returned
C35_Witness ==
    \E p \in Procs :
        /\ Finished(p) /\ loc[p].result.ok
        /\ Missing(p) # {}
        /\ loc[p].result.value.total = 1
        /\ HitIds(loc[p].result.value.hits) = Found(p)


\* C37: the emitted hit of an identity the lexical list holds takes its lexical
\* score and its snippet from one and the same lexical hit.
C37_ScoreAndSnippetSameHit ==
    \A p \in Procs :
        Finished(p) /\ loc[p].result.ok =>
            \A i \in DOMAIN loc[p].merged :
                LET h == loc[p].merged[i]
                    lex == {k \in DOMAIN loc[p].fts_hits :
                               loc[p].fts_hits[k].email_id = h.email_id}
                IN lex # {} =>
                       \E k \in lex :
                           /\ h.snippet = loc[p].fts_hits[k].snippet
                           /\ \E m \in SemanticScores(loc[p].semantic_hits, h.email_id) :
                                  h.score = loc[p].fts_hits[k].rank * loc[p].seen.fts_weight
                                            + m * loc[p].seen.semantic_weight


\* C38: at every state can_undo() is true exactly when undo_count() > 0, and a
\* pop_undo() returns Some exactly when can_undo() was true before it.
C38_AvailabilityConsistent ==
    /\ [](can_undo(undo_stack, undo_window, now) <=> undo_count(undo_stack, undo_window, now) > 0)
    /\ [][PopUndoStep =>
              (undo_ret'.value # <<>> <=> can_undo(undo_stack, undo_window, now))]_vars


\* the byte offsets of the character boundaries of a text
Boundaries(s) == {ByteLen(SubSeq(s, 1, k)) : k \in 0..Len(s)}

\* C40: after any sequence of TextBuffer calls the cursor is between 0 and the
\* byte length of the text and on a character boundary of it.
C40_CursorInvariant ==
    /\ buffer.cursor >= 0
    /\ buffer.cursor <= ByteLen(buffer.text)
    /\ buffer.cursor \in Boundaries(buffer.text)

\* the cursor stands right before or right after a two-byte character inside a
\* longer text
C40_Witness ==
    /\ buffer.text = <<"a", "U+00E9", "a">>
    /\ buffer.cursor \in {1, 3}


FocusNextStep == list_ret'.op = "focus_next"

FocusPreviousStep == list_ret'.op = "focus_previous"

\* C39: focused_index is a valid index whenever threads is non-empty, no call
\* indexes threads out of bounds, and focus_next at the last thread and
\* focus_previous at the first leave focused_index unchanged.
C39_FocusInBounds ==
    /\ [](threads # <<>> => focused_index < Len(threads))
    /\ [](~list_ret.panicked)
    /\ [][/\ FocusNextStep /\ focused_index = Len(threads) - 1 => focused_index' = focused_index
          /\ FocusPreviousStep /\ focused_index = 0 => focused_index' = focused_index]_vars


SearchLocks == {settings_lock, history_lock}

\* p waits in the queue of a lock q holds or waits for ahead of p
WaitsFor(p, q) ==
    \E l \in SearchLocks :
        \E i \in DOMAIN l.queue :
            /\ l.queue[i].proc = p
            /\ \/ HoldsAny(l, q)
               \/ \E j \in 1..(i - 1) : l.queue[j].proc = q

\* the callers p waits for, directly or through others
RECURSIVE WaitClosure(_, _)
WaitClosure(S, n) ==
    IF n = 0 THEN S
    ELSE WaitClosure(S \cup {q \in Procs : \E r \in S : WaitsFor(r, q)}, n - 1)

WaitCycle ==
    \E p \in Procs :
        p \in WaitClosure({q \in Procs : WaitsFor(p, q)}, Cardinality(Procs))

\* C36: no set of calls waits on the settings lock and the history lock in a
\* cycle, and, backend calls returning, every started call returns.
C36_NoDeadlockCompletion ==
    /\ [](~WaitCycle)
    /\ \A p \in Procs : (pc[p] # "idle") ~> (pc[p] \in {"done", "idle"})

\* a search holds the settings guard and waits for the history lock a reader
\* holds, while another caller waits for the settings lock
C36_Witness ==
    \E p, q, r \in Procs :
        /\ HoldsRead(settings_lock, p) /\ Queued(history_lock, p)
        /\ HoldsRead(history_lock, r)
        /\ Queued(settings_lock, q)

====
